---- MODULE Spec2Model ----
(***************************************************************************)
(* Model of @sonabuild/kit: the attested-call protocol engine.             *)
(*                                                                         *)
(* Spec       : the dispatcher (_callRoute), the two module-level caches   *)
(*              (session.js, meta.js), the two executors (helpers.js) and  *)
(*              the constructor's session prefetch (index.js), for two     *)
(*              concurrent calls against a server whose key can rotate.    *)
(* SpecIntent : the Intent value (intent.js): verify and confirm.          *)
(* SpecFn     : the pure functions (route lookup, request builders, the    *)
(*              client proxy, the sealed box, the constructor), applied    *)
(*              to arguments drawn from bounded sets; and, step by step,   *)
(*              the handling of one attested answer up to the log lines,   *)
(*              and the getSession / getMeta calls of two clients.         *)
(* SpecLive   : one call of the dispatcher under fairness, for             *)
(*              termination.                                               *)
(*                                                                         *)
(* JavaScript is single-threaded. An action below is one synchronous run   *)
(* of the code: from a call by the application, from the settlement of a   *)
(* fetch (status line and headers in, or the request failed), from the end *)
(* of a body read (res.json(), res.text()), or from the resumption of an   *)
(* await, up to the next await whose continuation reads shared state. An   *)
(* await yields also when its promise is already settled: `await           *)
(* fetchRouteMetadata` resumes some microtask turns after getMeta's cache  *)
(* test, and other continuations run in between. Awaits after which the    *)
(* code reads nothing but its own locals are taken with the step before    *)
(* them. The order in which settlements are delivered is left open.        *)
(***************************************************************************)
EXTENDS Integers, Sequences, FiniteSets, TLC

(***************************************************************************)
(* Bounds of the model.                                                    *)
(***************************************************************************)
\* The server's key rotates at most this many times (epochs 0..MaxEpoch).
MaxEpoch == 1
\* sendFn is invoked at most this many times.
MaxSends == 2

\* The concurrent external _callRoute calls.
Calls == {"c1", "c2"}
\* The constructor's prefetch, as owner of a session fetch.
Pre == "pre"

\* Route paths a caller can ask for, as the segments the caller names: one
\* the registry flags attested, one it lists as plain, one it does not list.
AttestedPaths == { << "vault", "deposit" >> }
PlainPaths == { << "vault", "quote" >> }
Paths == AttestedPaths \cup PlainPaths \cup { << "ghost", "route" >> }

VARIABLES
    sessionCache,   \* session.js `cache`: the cached Session, or NoSession
    metaCache,      \* meta.js `cache`: TRUE when the /meta body is cached
    sessInflight,   \* GET /session requests issued and not yet answered
    sessReading,    \* GET /session answers with status 200 whose body is
                    \* being read (`await res.json()`)
    invalidations,  \* times _callRoute's catch has cleared the session cache
    serverEpoch,    \* the enclave's current key generation
    serverKeyLen,   \* bytes in the encryption key the server's sessions carry,
                    \* or KeyAbsent, or BodyNull
    calls,          \* per external call: position, locals and outcome
    prefetch,       \* position of Sona._startSessionRefetch
    intent,         \* the Intent's fields (SpecIntent)
    verifying,      \* what a pending verify() will resolve to, or "none"
    confirmPc,      \* "idle", "verifying": confirm awaits this.verify(), or
                    \* "sending": confirm awaits the promise sendFn returned
    isValid,        \* confirm's local: what its verify() resolved to
    sendFn,         \* confirm's argument: what sendFn does when invoked
    sendCount,      \* times any sendFn has been invoked
    lastSent,       \* the Intent content the last sendFn invocation saw
    outcome,        \* settlement of the last verify() or confirm()
    args,           \* the function under study and its arguments (SpecFn)
    ret             \* what that function returned, once applied

vars == << sessionCache, metaCache, sessInflight, sessReading, invalidations, serverEpoch,
           serverKeyLen, calls, prefetch, intent, verifying, confirmPc, isValid, sendFn,
           sendCount,
           lastSent, outcome, args, ret >>

dispatchVars == << sessionCache, metaCache, sessInflight, sessReading, invalidations,
                   serverEpoch, serverKeyLen, calls, prefetch >>
intentVars == << intent, verifying, confirmPc, isValid, sendFn, sendCount, lastSent,
                outcome >>
fnVars == << args, ret >>

(***************************************************************************)
(* Values.                                                                 *)
(***************************************************************************)
\* `cache = null` in session.js.
NoSession == [present |-> FALSE, epoch |-> 0, gen |-> 0]

IsNull(s) == ~s.present

\* The parsed /session body for key generation e: encryptionPubKeyB64 and
\* integrityPubkeyB64 both belong to generation e. gen dates the object: the
\* number of invalidations that had happened when its GET was issued.
Session(e, g) == [present |-> TRUE, epoch |-> e, gen |-> g]

\* The routes mapping of the /meta body the server answers: entries keyed
\* by the route path with a leading slash, each with its attested flag.
Registry ==
    [k \in {"/vault/deposit", "/vault/quote"} |-> [attested |-> k = "/vault/deposit"]]

\* A parsed /meta body: hasRoutes tells whether it has a routes mapping.
MetaBody(hasRoutes, routes) == [hasRoutes |-> hasRoutes, routes |-> routes]

\* The /meta body the server answers, which is what meta.js caches.
ServedMeta == MetaBody(TRUE, Registry)

\* Error messages, as the sequence of their parts.
StaleText == "stale ciphertext"
ErrStale == << StaleText >>
ErrAttested(status, text) == << "Sona: Attested API error", status, text >>
ErrApi(status) == << "Sona: API error", status >>
\* Mutant of ErrSession: the status is left out of the message.
ErrSessionNoStatus(status) == << "Sona: /session failed" >>
ErrSession(status) == << "Sona: /session failed", status >>
ErrMeta(status) == << "Sona: /meta failed", status >>
ErrTimeout == << "Request timeout after", "30000ms" >>
ErrNetwork == << "fetch failed" >>

\* String.prototype.includes on a message, part by part.
Includes(msg, part) == \E i \in DOMAIN msg : msg[i] = part

(***************************************************************************)
(* HTTP responses, as the engine observes them.                            *)
(***************************************************************************)
\* status: "200" | "404" | "500" | "timeout" (deadline abort) | "network"
\* text  : the body text of a non-2xx response
\* error, hasMsg, hasSig : fields of a parsed 2xx attested body
Resp(status, text, error, hasMsg, hasSig) ==
    [status |-> status, text |-> text, error |-> error,
     hasMsg |-> hasMsg, hasSig |-> hasSig]

Failures ==
    { Resp(s, "", "", FALSE, FALSE) : s \in {"500", "timeout", "network"} }

\* What GET /session and GET /meta can answer.
FetchResponses == { Resp("200", "", "", FALSE, FALSE) } \cup Failures

\* What the plain POST can answer.
PlainResponses ==
    { Resp(s, "", "", FALSE, FALSE) : s \in {"200", "404"} } \cup Failures

\* What the attested POST can answer to a ciphertext sealed for key ctKey:
\* the enclave reports stale ciphertext exactly when that key is not its
\* current one; an error status may carry any body text.
AttestedResponses(ctKey) ==
    { Resp("404", "", "", FALSE, FALSE),
      Resp("timeout", "", "", FALSE, FALSE),
      Resp("network", "", "", FALSE, FALSE) }
    \cup { Resp("500", t, "", FALSE, FALSE) :
              t \in {"", "internal error", StaleText} }
    \cup ( IF ctKey = serverEpoch
           THEN { Resp("200", "", "", msg, sig) : msg, sig \in BOOLEAN }
           ELSE { Resp("200", "", StaleText, FALSE, FALSE) } )

(***************************************************************************)
(* Results of an executor and of a call.                                   *)
(***************************************************************************)
\* type  : "none" | "intent" | "data"
\* key   : integrityPubkeyB64 of an Intent (a key generation), else -1
\* error : the body's error field, carried along by {...data}
NoVal == [type |-> "none", key |-> 0 - 1, error |-> ""]

\* The request body of the operation POST.
\* type  : "none" | "plain" (JSON of the payload) | "sealed" ({ctB64, paramsHint})
\* ctKey : the key generation the ciphertext was sealed for
NoBody == [type |-> "none", ctKey |-> 0 - 1, paramsHint |-> FALSE]

\* No Response is held: no fetch of the operation POST has returned one.
NoResp == [status |-> "none", text |-> "", error |-> "", hasMsg |-> FALSE,
           hasSig |-> FALSE]

\* pc: "idle" | "metaWait" (GET /meta sent) | "metaBody" (its body is read)
\*   | "routeWait" (`await fetchRouteMetadata` is about to resume)
\*   | "sessWait" (GET /session sent) | "sessBody" (its body is read)
\*   | "postWait" (attested POST sent) | "postBody" (its body is read)
\*   | "plainWait" (plain POST sent) | "plainBody" (its body is read)
\*   | "done"
\* resp: the Response `res` of the operation POST while its body is read
InitCall ==
    [pc |-> "idle", path |-> << "ghost", "route" >>, attempt |-> 0,
     session |-> NoSession, body |-> NoBody, resp |-> NoResp,
     firstErr |-> << >>,
     invalAt |-> 0, kind |-> "pending", err |-> << >>, val |-> NoVal]

\* What an executor hands back: a value, null, or a thrown error.
OutValue(v) == [kind |-> "value", err |-> << >>, val |-> v]
OutNull == [kind |-> "null", err |-> << >>, val |-> NoVal]
OutThrow(e) == [kind |-> "throw", err |-> e, val |-> NoVal]

(***************************************************************************)
(* session.js, meta.js                                                     *)
(***************************************************************************)
\* Mutant of SessionCacheHit: the cache test is lost, every call refetches.
SessionCacheNeverHit(cache) == FALSE

\* getSession: `if (cache) return cache;`
SessionCacheHit(cache) == ~IsNull(cache)

\* clearSessionCache: `cache = null`
ClearedSessionCache == NoSession

\* Mutant of MetaCacheHit: the cache test is lost, every call refetches.
MetaCacheNeverHit == FALSE

\* getMeta: `if (cache) return cache;`
MetaCacheHit == metaCache

\* Array.prototype.join.
RECURSIVE Join(_, _)
Join(segs, sep) ==
    IF segs = << >> THEN ""
    ELSE IF Len(segs) = 1 THEN segs[1]
    ELSE segs[1] \o sep \o Join(Tail(segs), sep)

\* What getRouteInfo returns when there is no entry (undefined).
Absent == [found |-> FALSE, attested |-> FALSE]

\* Mutant of GetRouteInfo: a path with no entry is taken for a plain route.
GetRouteInfoFallback(meta, pathArray) ==
    LET key == "/" \o Join(pathArray, "/") IN
    IF meta.hasRoutes /\ key \in DOMAIN meta.routes
    THEN [found |-> TRUE, attested |-> meta.routes[key].attested]
    ELSE [found |-> TRUE, attested |-> FALSE]

\* Mutant of GetRouteInfo: the key is looked up without its leading slash.
GetRouteInfoNoSlash(meta, pathArray) ==
    LET key == Join(pathArray, "/") IN
    IF meta.hasRoutes /\ key \in DOMAIN meta.routes
    THEN [found |-> TRUE, attested |-> meta.routes[key].attested]
    ELSE Absent

\* getRouteInfo: `meta.routes && meta.routes['/' + pathArray.join('/')]`.
GetRouteInfo(meta, pathArray) ==
    LET key == "/" \o Join(pathArray, "/") IN
    IF meta.hasRoutes /\ key \in DOMAIN meta.routes
    THEN [found |-> TRUE, attested |-> meta.routes[key].attested]
    ELSE Absent

\* fetchWithTimeout's rejection, or the non-2xx error built by `httpErr`.
FetchError(r, httpErr) ==
    CASE r.status = "timeout" -> ErrTimeout
      [] r.status = "network" -> ErrNetwork
      [] OTHER -> httpErr

(***************************************************************************)
(* client.js: the proxy that turns property chains into route calls        *)
(***************************************************************************)
\* makeClient: the property names a caller chains, the argument lists of
\* the final invocation, and what the route executor does when called.
PropNames == {"vault", "deposit", "then"}
MaxChain == 2
Chains == UNION { [1..n -> PropNames] : n \in 0..MaxChain }
ArgLists == UNION { [1..n -> {"payloadA", "payloadB"}] : n \in 0..2 }
ExecutorResults ==
    { [kind |-> "resolved", value |-> "result1"],
      [kind |-> "rejected", value |-> "executor error"] }

\* What a property read can yield: a proxied function with its path, or
\* undefined.
Undefined == [defined |-> FALSE, path |-> << >>]
ProxyOf(path) == [defined |-> TRUE, path |-> path]

\* Mutant of ProxyGet: the new segment goes in front of the path.
ProxyGetPrepend(node, prop) ==
    IF prop = "then" THEN Undefined ELSE ProxyOf(<< prop >> \o node.path)

\* The Proxy's get trap: `then` reads as undefined, any other property
\* is build([...path, String(prop)]).
ProxyGet(node, prop) ==
    IF prop = "then" THEN Undefined ELSE ProxyOf(Append(node.path, prop))

ErrRootCall ==
    << "Sona: Cannot call client directly. Use sona.protocol.operation() instead." >>
ErrTypeError == << "TypeError" >>

\* The outcome of an expression client.p1...pn(args): how it settles and
\* the calls the executor received.
ClientOutcome(kind, value, executed) ==
    [kind |-> kind, value |-> value, executed |-> executed]

\* args[0], undefined when the argument list is empty.
FirstArg(argList) == IF Len(argList) = 0 THEN "undefined" ELSE argList[1]

\* fn(...args) of build(path).
InvokeProxy(node, argList, executor) ==
    IF Len(node.path) = 0
    THEN ClientOutcome("rejected", ErrRootCall, << >>)
    ELSE ClientOutcome(executor.kind, executor.value,
                       << [path |-> node.path, payload |-> FirstArg(argList)] >>)

\* Evaluates node.p1...pn(args): a property read or a call on undefined
\* raises a TypeError before anything is invoked.
RECURSIVE ClientCall(_, _, _, _)
ClientCall(node, chain, argList, executor) ==
    IF ~node.defined
    THEN ClientOutcome("thrown", ErrTypeError, << >>)
    ELSE IF chain = << >>
         THEN InvokeProxy(node, argList, executor)
         ELSE ClientCall(ProxyGet(node, Head(chain)), Tail(chain), argList,
                         executor)

\* makeClient(executeRoute) is build([]).
MakeClient == ProxyOf(<< >>)

(***************************************************************************)
(* crypto.js: the sealed box. Bytes that come out of the primitives are    *)
(* symbolic: a byte records the segment it belongs to, the ephemeral       *)
(* secret it was derived from, its position and, for a ciphertext byte,    *)
(* the message byte it encrypts.                                           *)
(***************************************************************************)
\* Plaintexts are strings of up to MaxPlain characters whose UTF-8
\* encodings take one to four bytes: a, e-acute, the euro sign, an emoji.
MaxPlain == 2
Chars == {"a", "eacute", "euro", "emoji"}
Plaintexts == UNION { [1..n -> Chars] : n \in 0..MaxPlain }

\* Mutant of Utf8Bytes: one byte per character.
Utf8BytesNarrow(ch) == << 97 >>

\* The UTF-8 encoding of a character.
Utf8Bytes(ch) ==
    CASE ch = "a" -> << 97 >>
      [] ch = "eacute" -> << 195, 169 >>
      [] ch = "euro" -> << 226, 130, 172 >>
      [] ch = "emoji" -> << 240, 159, 152, 128 >>

\* new TextEncoder().encode(text)
RECURSIVE TextEncode(_)
TextEncode(text) ==
    IF text = << >> THEN << >>
    ELSE Utf8Bytes(Head(text)) \o TextEncode(Tail(text))

\* Decoded recipient keys: the 32 bytes of a key, or some other length.
KeyLengths == {0, 31, 32, 33}
KeyBytes(n) == [i \in 1..n |-> "k"]

\* The encrypt calls made one after another on the same input, and the
\* values randomBytes(32) can return.
MaxEncrypts == 2
EphPrivs == 1..(MaxEncrypts + 1)

\* Mutant of RandomBytes: the first ephemeral secret is kept and reused.
RandomBytesCached(drawn) == IF drawn = {} THEN EphPrivs ELSE drawn

\* randomBytes(32): any value the generator has not returned before.
RandomBytes(drawn) == EphPrivs \ drawn

Byte(seg, src, i, m) == [seg |-> seg, src |-> src, i |-> i, m |-> m]

\* x25519.getPublicKey(ephPriv): 32 bytes.
GetPublicKey(ephPriv) == [i \in 1..32 |-> Byte("ephPub", ephPriv, i, 0)]

\* Mutant of ScalarMultRaises: any length is accepted.
ScalarMultRaisesNever(recipientPubKey) == FALSE

\* x25519.scalarMult(ephPriv, recipientPubKey) raises unless the
\* u-coordinate is 32 bytes long.
ScalarMultRaises(recipientPubKey) == Len(recipientPubKey) # 32
ErrKeyLength == << "x25519: invalid u coordinate length" >>

\* blake2b(ephPub || recipientPubKey, dkLen 24): fixed by the two keys.
SealNonce(ephPub, recipientPubKey) ==
    [eph |-> ephPub[1].src, recipient |-> recipientPubKey]

\* xsalsa20poly1305(key, nonce).encrypt(msg): the 16-byte authenticator,
\* then one ciphertext byte per message byte (the NaCl secretbox layout).
SecretBox(src, msg) ==
    [i \in 1..16 |-> Byte("tag", src, i, 0)]
    \o [i \in 1..Len(msg) |-> Byte("ct", src, i, msg[i])]

\* cryptoBoxSealCompatible(msg, recipientPubKey) with ephPriv drawn.
CryptoBoxSealCompatible(msg, recipientPubKey, ephPriv) ==
    LET ephPub == GetPublicKey(ephPriv) IN
    IF ScalarMultRaises(recipientPubKey)
    THEN [kind |-> "throw", err |-> ErrKeyLength, bytes |-> << >>,
          nonce |-> SealNonce(ephPub, recipientPubKey), eph |-> ephPriv]
    ELSE [kind |-> "value", err |-> << >>,
          bytes |-> ephPub \o SecretBox(ephPriv, msg),
          nonce |-> SealNonce(ephPub, recipientPubKey), eph |-> ephPriv]

\* encryptForEnclave up to the sealed bytes: encode the JSON text, seal.
EncryptForEnclave(text, recipientPubKey, ephPriv) ==
    CryptoBoxSealCompatible(TextEncode(text), recipientPubKey, ephPriv)

(***************************************************************************)
(* helpers.js: the executors                                               *)
(***************************************************************************)
\* buildAttestedRequestBody over encryptForEnclave(envelope, session key).
SealedBody(session) ==
    [type |-> "sealed", ctKey |-> session.epoch, paramsHint |-> TRUE]

\* executePlainRoute: the body is the JSON of the payload.
PlainBody == [type |-> "plain", ctKey |-> 0 - 1, paramsHint |-> FALSE]

\* Mutant of IntentKey: the key is read from the module's cache when the
\* response arrives, not from the attempt's Session.
IntentKeyFromCache(session) == sessionCache.epoch

\* The key an Intent is given: that of the Session held by the attempt.
IntentKey(session) == session.epoch

\* Mutant of ProcessAttestedResponse: the stale-ciphertext test is lost.
ProcessAttestedResponseNoStale(data, session) ==
    IF data.hasMsg /\ data.hasSig
    THEN OutValue([type |-> "intent", key |-> IntentKey(session),
                   error |-> data.error])
    ELSE OutValue([type |-> "data", key |-> 0 - 1, error |-> data.error])

\* processAttestedResponse(data, session)
ProcessAttestedResponse(data, session) ==
    IF data.error = StaleText
    THEN OutThrow(ErrStale)
    ELSE IF data.hasMsg /\ data.hasSig
         THEN OutValue([type |-> "intent", key |-> IntentKey(session),
                        error |-> data.error])
         ELSE OutValue([type |-> "data", key |-> 0 - 1, error |-> data.error])

\* Mutant of ExecuteAttestedFinish: the 404 test is lost, so a 404 is
\* handled as any other non-2xx status.
ExecuteAttestedFinishNo404(cr, r) ==
    CASE r.status \in {"timeout", "network"} -> OutThrow(FetchError(r, << >>))
      [] r.status \in {"404", "500"} -> OutThrow(ErrAttested(r.status, r.text))
      [] OTHER -> ProcessAttestedResponse(r, cr.session)

\* executeAttestedRoute, from the POST's settlement on.
ExecuteAttestedFinish(cr, r) ==
    CASE r.status \in {"timeout", "network"} -> OutThrow(FetchError(r, << >>))
      [] r.status = "404" -> OutNull
      [] r.status = "500" -> OutThrow(ErrAttested(r.status, r.text))
      [] OTHER -> ProcessAttestedResponse(r, cr.session)

\* executePlainRoute, from the POST's settlement on.
ExecutePlainFinish(r) ==
    CASE r.status \in {"timeout", "network"} -> OutThrow(FetchError(r, << >>))
      [] r.status = "404" -> OutNull
      [] r.status = "500" -> OutThrow(ErrApi(r.status))
      [] OTHER -> OutValue([type |-> "data", key |-> 0 - 1, error |-> ""])

(***************************************************************************)
(* internal-call.js: the dispatcher                                        *)
(***************************************************************************)
\* Mutant of IsStaleError: a timeout is retried too.
IsStaleErrorOrTimeout(err) == Includes(err, StaleText) \/ err = ErrTimeout

\* The catch clause's test: error.message.includes('stale ciphertext').
IsStaleError(err) == Includes(err, StaleText)

\* Mutant of InsideTry: the retry is itself retried.
InsideTryAgain(cr) == cr.attempt <= 2

\* The try block covers the first _callRouteInternal only.
InsideTry(cr) == cr.attempt = 1

\* The call settles; the locals of its attempt are gone.
Finish(cr, out) ==
    [cr EXCEPT !.pc = "done",
               !.kind = IF out.kind = "throw" THEN "error" ELSE out.kind,
               !.err = out.err, !.val = out.val,
               !.session = NoSession, !.body = NoBody, !.resp = NoResp,
               !.invalAt = 0]

\* getSession's request on behalf of `owner`: a GET /session whose answer
\* carries the key generation the server has now; gen dates the request.
NewFetch(owner, gen) == [owner |-> owner, epoch |-> serverEpoch, gen |-> gen]

\* session.encryptionPubKeyB64 decoded: the key the server handed out.
EncryptionKey(session) == KeyBytes(serverKeyLen)

\* Two more /session bodies a server can answer with status 200: a JSON
\* object without encryptionPubKeyB64, and the JSON value null.
KeyAbsent == 0 - 1
BodyNull == 0 - 2
ServerBodies == KeyLengths \cup {KeyAbsent, BodyNull}

\* Mutant of ParsedSession: a body without the key is not kept.
ParsedSessionValidated(f) ==
    IF serverKeyLen \in {KeyAbsent, BodyNull} THEN NoSession
    ELSE Session(f.epoch, f.gen)

\* getSession's `cache = await res.json()` for the answer to request f:
\* whatever the body parses to, null for the body null.
ParsedSession(f) ==
    IF serverKeyLen = BodyNull THEN NoSession ELSE Session(f.epoch, f.gen)

\* `session.encryptionPubKeyB64` on null, and base64ToBytes(undefined)
\* (Buffer.from rejects a value that is no string).
ErrNullSession ==
    << "TypeError", "Cannot read properties of null (reading 'encryptionPubKeyB64')" >>
ErrKeyType ==
    << "TypeError", "The first argument must be of type string or an instance of Buffer" >>

\* The JSON text of the envelope, and the ephemeral secret of this seal.
EnvelopeText == << "a" >>

\* executeAttestedRoute once it holds a Session: seal the envelope, POST.
\* An error raised by encryptForEnclave leaves the executor before the
\* POST; its message does not hold 'stale ciphertext', so _callRoute's
\* catch rethrows it.
SealAndPost(cr, session) ==
    IF IsNull(session) THEN Finish(cr, OutThrow(ErrNullSession))
    ELSE IF serverKeyLen = KeyAbsent THEN Finish(cr, OutThrow(ErrKeyType))
    ELSE
    LET sealed == EncryptForEnclave(EnvelopeText, EncryptionKey(session), 1) IN
    IF sealed.kind = "throw"
    THEN Finish(cr, OutThrow(sealed.err))
    ELSE [cr EXCEPT !.pc = "postWait", !.session = session,
                    !.body = SealedBody(session)]

\* Mutant of Dispatched: the two branches of the ternary are swapped.
DispatchedSwapped(c, cr, cache, gen) ==
    LET route == GetRouteInfo(ServedMeta, cr.path) IN
    IF ~route.found
    THEN [call |-> Finish(cr, OutNull), fetch |-> {}]
    ELSE IF ~route.attested
         THEN IF SessionCacheHit(cache)
              THEN [call |-> SealAndPost(cr, cache), fetch |-> {}]
              ELSE [call |-> [cr EXCEPT !.pc = "sessWait"],
                    fetch |-> {NewFetch(c, gen)}]
         ELSE [call |-> [cr EXCEPT !.pc = "plainWait", !.body = PlainBody],
               fetch |-> {}]

\* Mutant of Dispatched: the attested executor does not wait for
\* getSession; it seals under whatever the cache holds and POSTs while
\* the fetch is still in flight.
DispatchedPipelined(c, cr, cache, gen) ==
    LET route == GetRouteInfo(ServedMeta, cr.path) IN
    IF ~route.found
    THEN [call |-> Finish(cr, OutNull), fetch |-> {}]
    ELSE IF route.attested
         THEN [call |-> SealAndPost(cr, cache),
               fetch |-> IF SessionCacheHit(cache) THEN {}
                         ELSE {NewFetch(c, gen)}]
         ELSE [call |-> [cr EXCEPT !.pc = "plainWait", !.body = PlainBody],
               fetch |-> {}]

\* _callRouteInternal once it holds the route metadata: resolve the route and
\* run the chosen executor up to its first wait for the network. `cache` is
\* the session cache as getSession finds it, `gen` the invalidations so far.
Dispatched(c, cr, cache, gen) ==
    LET route == GetRouteInfo(ServedMeta, cr.path) IN
    IF ~route.found
    THEN [call |-> Finish(cr, OutNull), fetch |-> {}]
    ELSE IF route.attested
         THEN IF SessionCacheHit(cache)
              THEN [call |-> SealAndPost(cr, cache), fetch |-> {}]
              ELSE [call |-> [cr EXCEPT !.pc = "sessWait"],
                    fetch |-> {NewFetch(c, gen)}]
         ELSE [call |-> [cr EXCEPT !.pc = "plainWait", !.body = PlainBody],
               fetch |-> {}]

\* _callRouteInternal from its entry up to `await fetchRouteMetadata`:
\* getMeta's cache test, made in the caller's own run. On a hit the await
\* still yields, and the attempt resumes in a later run (routeWait); on a
\* miss GET /meta is sent. The attempt's locals start fresh.
BeginAttempt(cr) ==
    LET fresh == [cr EXCEPT !.session = NoSession, !.body = NoBody,
                            !.resp = NoResp] IN
    [fresh EXCEPT !.pc = IF MetaCacheHit THEN "routeWait" ELSE "metaWait"]

\* _callRoute around an attempt's outcome: a stale-ciphertext error caught
\* by the try clears the session cache and starts the second attempt, up to
\* its `await fetchRouteMetadata`; everything else settles the call.
AfterOutcome(cr, out) ==
    IF out.kind = "throw" /\ InsideTry(cr) /\ IsStaleError(out.err)
    THEN [cache |-> ClearedSessionCache, inval |-> invalidations + 1,
          call |-> BeginAttempt([cr EXCEPT !.attempt = cr.attempt + 1,
                                           !.firstErr = out.err,
                                           !.invalAt = invalidations + 1])]
    ELSE [cache |-> sessionCache, inval |-> invalidations,
          call |-> Finish(cr, out)]

(***************************************************************************)
(* Actions of the dispatcher specification.                                *)
(***************************************************************************)
\* An application calls client.<path>(payload): _callRoute starts and runs
\* to `await fetchRouteMetadata`. The client belongs to a Sona instance, so
\* the constructor has run. The two calls are interchangeable, so "c1" names
\* the one that starts first.
Start(c, p) ==
    /\ calls[c].pc = "idle"
    /\ prefetch # "init"
    /\ c = "c2" => calls["c1"].pc # "idle"
    /\ calls' = [calls EXCEPT ![c] =
                    BeginAttempt([InitCall EXCEPT !.path = p, !.attempt = 1])]
    /\ UNCHANGED << sessionCache, metaCache, sessInflight, sessReading,
                    invalidations, serverEpoch, prefetch >>
    /\ UNCHANGED << serverKeyLen, intentVars, fnVars >>

\* The property chain of sona.dispose(): the constructor returns the proxy
\* of makeClient, on which `dispose` reads as the route path ["dispose"].
DisposePath == ClientCall(MakeClient, << "dispose" >>, << >>,
                          [kind |-> "resolved", value |-> "none"]).executed[1].path

\* The application calls sona.dispose(): a call of the route "dispose".
Dispose(c) == Start(c, DisposePath)

\* The call settles or starts its second attempt, as AfterOutcome tells.
Settle(c, cr, out) ==
    LET a == AfterOutcome(cr, out) IN
    /\ calls' = [calls EXCEPT ![c] = a.call]
    /\ sessionCache' = a.cache
    /\ invalidations' = a.inval

\* The fetch of GET /meta settles for call c: on a 2xx getMeta goes on to
\* read the body, its timer cleared; otherwise it throws.
MetaResponse(c, r) ==
    /\ calls[c].pc = "metaWait"
    /\ r \in FetchResponses
    /\ IF r.status = "200"
       THEN /\ calls' = [calls EXCEPT ![c].pc = "metaBody"]
            /\ UNCHANGED << sessionCache, invalidations >>
       ELSE Settle(c, calls[c], OutThrow(FetchError(r, ErrMeta(r.status))))
    /\ UNCHANGED << metaCache, sessInflight, sessReading, serverEpoch,
                    prefetch >>
    /\ UNCHANGED << serverKeyLen, intentVars, fnVars >>

\* getMeta's `cache = await res.json()` ends for call c: the registry is
\* cached and returned to fetchRouteMetadata, whose await resumes later.
MetaJson(c) ==
    /\ calls[c].pc = "metaBody"
    /\ metaCache' = TRUE
    /\ calls' = [calls EXCEPT ![c].pc = "routeWait"]
    /\ UNCHANGED << sessionCache, sessInflight, sessReading, invalidations,
                    serverEpoch, prefetch >>
    /\ UNCHANGED << serverKeyLen, intentVars, fnVars >>

\* `await fetchRouteMetadata` resumes for call c: the route is resolved and
\* the chosen executor runs up to its first wait for the network, with the
\* session cache as getSession finds it now.
Dispatch(c) ==
    /\ calls[c].pc = "routeWait"
    /\ LET d == Dispatched(c, calls[c], sessionCache, invalidations) IN
         /\ calls' = [calls EXCEPT ![c] = d.call]
         /\ sessInflight' = sessInflight \cup d.fetch
    /\ UNCHANGED << sessionCache, metaCache, sessReading, invalidations,
                    serverEpoch, prefetch >>
    /\ UNCHANGED << serverKeyLen, intentVars, fnVars >>

\* Mutant of StartSessionRefetch: no try/catch, so a failed getSession
\* rejects the promise the constructor dropped.
StartSessionRefetchNoCatch(r) ==
    IF r.status = "200" THEN "done" ELSE "rejected"

\* _startSessionRefetch once its getSession has settled with answer r: the
\* try block ends, or the catch logs a warning; either way the promise
\* resolves.
StartSessionRefetch(r) == "done"

\* The fetch of GET /session request f settles: on a 2xx getSession goes on
\* to read the body, its timer cleared; otherwise it throws to its caller,
\* a call's attested executor or the constructor's prefetch.
SessionResponse(f, r) ==
    /\ f \in sessInflight
    /\ r \in FetchResponses
    /\ sessInflight' = sessInflight \ {f}
    /\ IF r.status = "200"
       THEN /\ sessReading' = sessReading \cup {f}
            /\ UNCHANGED << sessionCache, invalidations >>
            /\ IF f.owner = Pre
               THEN prefetch' = "read" /\ UNCHANGED calls
               ELSE /\ calls' = [calls EXCEPT ![f.owner].pc = "sessBody"]
                    /\ UNCHANGED prefetch
       ELSE /\ UNCHANGED sessReading
            /\ IF f.owner = Pre
               THEN /\ prefetch' = StartSessionRefetch(r)
                    /\ UNCHANGED << calls, sessionCache, invalidations >>
               ELSE /\ Settle(f.owner, calls[f.owner],
                              OutThrow(FetchError(r, ErrSession(r.status))))
                    /\ UNCHANGED prefetch
    /\ UNCHANGED << metaCache, serverEpoch >>
    /\ UNCHANGED << serverKeyLen, intentVars, fnVars >>

\* getSession's `cache = await res.json()` ends for request f: the parsed
\* body is cached and returned to the caller, which seals and POSTs.
SessionJson(f) ==
    /\ f \in sessReading
    /\ sessReading' = sessReading \ {f}
    /\ sessionCache' = ParsedSession(f)
    /\ IF f.owner = Pre
       THEN /\ prefetch' = StartSessionRefetch(Resp("200", "", "", FALSE, FALSE))
            /\ UNCHANGED calls
       ELSE /\ calls' = [calls EXCEPT ![f.owner] =
                  SealAndPost(calls[f.owner], ParsedSession(f))]
            /\ UNCHANGED prefetch
    /\ UNCHANGED << metaCache, sessInflight, invalidations, serverEpoch >>
    /\ UNCHANGED << serverKeyLen, intentVars, fnVars >>

\* The statuses after which executeAttestedRoute reads the body: res.json()
\* on a 2xx, res.text() on another status that is not 404.
BodyReadStatuses == {"200", "500"}

\* The fetch of the attested POST of call c settles with r: with a body to
\* read the executor keeps the Response and waits for the body, its timer
\* cleared; a 404, the timeout's abort or a network error ends the attempt.
AttestedResponse(c, r) ==
    /\ calls[c].pc = "postWait"
    /\ r \in AttestedResponses(calls[c].body.ctKey)
    /\ IF r.status \in BodyReadStatuses
       THEN /\ calls' = [calls EXCEPT ![c].pc = "postBody", ![c].resp = r]
            /\ UNCHANGED << sessionCache, invalidations >>
       ELSE Settle(c, calls[c], ExecuteAttestedFinish(calls[c], r))
    /\ UNCHANGED << metaCache, sessInflight, sessReading, serverEpoch,
                    prefetch >>
    /\ UNCHANGED << serverKeyLen, intentVars, fnVars >>

\* The body of the attested POST's answer has been read for call c: the
\* executor finishes, and _callRoute's catch sees what it throws.
AttestedBody(c) ==
    /\ calls[c].pc = "postBody"
    /\ Settle(c, calls[c], ExecuteAttestedFinish(calls[c], calls[c].resp))
    /\ UNCHANGED << metaCache, sessInflight, sessReading, serverEpoch,
                    prefetch >>
    /\ UNCHANGED << serverKeyLen, intentVars, fnVars >>

\* The fetch of the plain POST of call c settles with r: a 2xx goes on to
\* `await res.json()`, everything else ends the attempt.
PlainResponse(c, r) ==
    /\ calls[c].pc = "plainWait"
    /\ r \in PlainResponses
    /\ IF r.status = "200"
       THEN /\ calls' = [calls EXCEPT ![c].pc = "plainBody", ![c].resp = r]
            /\ UNCHANGED << sessionCache, invalidations >>
       ELSE Settle(c, calls[c], ExecutePlainFinish(r))
    /\ UNCHANGED << metaCache, sessInflight, sessReading, serverEpoch,
                    prefetch >>
    /\ UNCHANGED << serverKeyLen, intentVars, fnVars >>

\* The body of the plain POST's answer has been read for call c.
PlainJson(c) ==
    /\ calls[c].pc = "plainBody"
    /\ Settle(c, calls[c], ExecutePlainFinish(calls[c].resp))
    /\ UNCHANGED << metaCache, sessInflight, sessReading, serverEpoch,
                    prefetch >>
    /\ UNCHANGED << serverKeyLen, intentVars, fnVars >>

\* new Sona(opts): _startSessionRefetch calls getSession and awaits it; on a
\* cache hit nothing is left for it to do.
Construct ==
    /\ prefetch = "init"
    /\ IF SessionCacheHit(sessionCache)
       THEN prefetch' = "done" /\ UNCHANGED sessInflight
       ELSE /\ prefetch' = "wait"
            /\ sessInflight' = sessInflight \cup {NewFetch(Pre, invalidations)}
    /\ UNCHANGED << sessionCache, metaCache, sessReading, invalidations,
                    serverEpoch, calls >>
    /\ UNCHANGED << serverKeyLen, intentVars, fnVars >>

\* The application calls the exported clearSessionCache().
ClearSessionCache ==
    /\ sessionCache' = ClearedSessionCache
    /\ sessionCache' # sessionCache
    /\ UNCHANGED << metaCache, sessInflight, sessReading, invalidations,
                    serverEpoch, calls, prefetch >>
    /\ UNCHANGED << serverKeyLen, intentVars, fnVars >>

\* The application calls the exported clearMetaCache().
ClearMetaCache ==
    /\ metaCache
    /\ metaCache' = FALSE
    /\ UNCHANGED << sessionCache, sessInflight, sessReading, invalidations,
                    serverEpoch, calls, prefetch >>
    /\ UNCHANGED << serverKeyLen, intentVars, fnVars >>

\* The enclave restarts with a new key pair.
Rotate ==
    /\ serverEpoch < MaxEpoch
    /\ serverEpoch' = serverEpoch + 1
    /\ UNCHANGED << sessionCache, metaCache, sessInflight, sessReading,
                    invalidations, calls, prefetch >>
    /\ UNCHANGED << serverKeyLen, intentVars, fnVars >>

InitCaches ==
    /\ sessionCache = NoSession
    /\ metaCache = FALSE
    /\ sessInflight = {}
    /\ sessReading = {}
    /\ invalidations = 0
    /\ serverEpoch = 0
    /\ calls = [c \in Calls |-> InitCall]
    /\ prefetch = "init"

\* The server hands out a well-formed encryption key.
InitDispatch ==
    /\ InitCaches
    /\ serverKeyLen = 32

\* The server hands out an encryption key of any of the lengths.
InitServer ==
    /\ InitCaches
    /\ serverKeyLen \in ServerBodies

(***************************************************************************)
(* intent.js: the Intent                                                   *)
(***************************************************************************)
\* A field of an Intent is undefined ("absent"), the empty string ("empty"),
\* a value base64 decoding or ed.verify rejects by raising ("junk"), or a
\* well-formed value. Well-formed values: messages m1 and m2, public keys
\* k1 and k2, and s11, the signature of m1 under k1's private key.
TxValues == {"absent", "empty", "m1", "m2"}
SigValues == {"absent", "empty", "junk", "s11"}
KeyValues == {"absent", "empty", "k1", "k2"}

Intents == [transaction : TxValues, signature : SigValues, pubkey : KeyValues]

\* JavaScript truthiness of a field: `!this.transaction` and so on. "absent"
\* is undefined, "empty" the empty string, "null" null.
Falsy(v) == v \in {"absent", "empty", "null"}

\* base64ToUint8Array: raises on what it cannot decode.
DecodeRaises(v) == v = "junk"

\* ed.verify(sig, msg, pub): the Ed25519 check on decoded bytes.
EdVerify(sig, msg, pub) == sig = "s11" /\ msg = "m1" /\ pub = "k1"

\* Mutant of Verify: no try/catch around the decoding and the check.
VerifyNoCatch(i) ==
    IF Falsy(i.transaction) \/ Falsy(i.signature) \/ Falsy(i.pubkey)
    THEN [threw |-> FALSE, value |-> FALSE, worked |-> FALSE,
          awaited |-> FALSE]
    ELSE IF DecodeRaises(i.transaction) \/ DecodeRaises(i.signature)
            \/ DecodeRaises(i.pubkey)
         THEN [threw |-> TRUE, value |-> FALSE, worked |-> TRUE,
               awaited |-> FALSE]
         ELSE [threw |-> FALSE, worked |-> TRUE, awaited |-> TRUE,
               value |-> EdVerify(i.signature, i.transaction, i.pubkey)]

\* Intent.verify() on the fields as they are when it is called: what the
\* promise settles to. threw: it rejected; value: the boolean it resolved
\* to; worked: decoding was started; awaited: `await ed.verify(...)` was
\* reached, so the promise settles in a later run. The missing-field return
\* and the catch of a raise come before any await.
Verify(i) ==
    IF Falsy(i.transaction) \/ Falsy(i.signature) \/ Falsy(i.pubkey)
    THEN [threw |-> FALSE, value |-> FALSE, worked |-> FALSE,
          awaited |-> FALSE]
    ELSE IF DecodeRaises(i.transaction) \/ DecodeRaises(i.signature)
            \/ DecodeRaises(i.pubkey)
         THEN [threw |-> FALSE, value |-> FALSE, worked |-> TRUE,
               awaited |-> FALSE]
         ELSE [threw |-> FALSE, worked |-> TRUE, awaited |-> TRUE,
               value |-> EdVerify(i.signature, i.transaction, i.pubkey)]

\* Mutant of ConfirmIsValid: a verify() or confirm() that passed earlier
\* lets confirm skip the check.
ConfirmIsValidRemembered ==
    \/ outcome = [op |-> "verify", kind |-> "resolved", value |-> "true"]
    \/ outcome.op = "confirm" /\ outcome.value # "integrity"
    \/ Verify(intent).value

\* confirm's `const isValid = await this.verify()`: verify() runs on the
\* fields as they are at the call.
ConfirmIsValid == Verify(intent).value

\* What a sendFn does when invoked: return a receipt or throw in the same
\* run, or return a promise that resolves with a receipt or rejects later.
SendFns == {"receipt", "throws", "asyncReceipt", "asyncThrows"}
AsyncSendFns == {"asyncReceipt", "asyncThrows"}

ErrIntegrity == << "Sona: integrity verification failed" >>

\* Settlements of verify() and confirm().
\* op: "none" | "verify" | "confirm"; kind: "resolved" | "rejected"
NoOutcome == [op |-> "none", kind |-> "resolved", value |-> "none"]
Resolved(op, v) == [op |-> op, kind |-> "resolved", value |-> v]
Rejected(op, v) == [op |-> op, kind |-> "rejected", value |-> v]

\* What JavaScript's boolean prints as.
BoolText(b) == IF b THEN "true" ELSE "false"

\* confirm after verify() resolved: throw, or `return sendFn([this])`,
\* which settles confirm as sendFn does.
ConfirmSettle(valid, fn) ==
    IF ~valid
    THEN [sent |-> FALSE, outcome |-> Rejected("confirm", "integrity")]
    ELSE [sent |-> TRUE,
          outcome |-> IF fn \in {"throws", "asyncThrows"}
                      THEN Rejected("confirm", "sendFn threw")
                      ELSE Resolved("confirm", fn)]

\* Application code assigns a field of the Intent.
SetField(i) ==
    /\ i \in Intents
    /\ i # intent
    /\ Cardinality({f \in {"transaction", "signature", "pubkey"} :
                        i[f] # intent[f]}) = 1
    /\ intent' = i
    /\ UNCHANGED << verifying, confirmPc, isValid, sendFn, sendCount,
                    lastSent, outcome >>
    /\ UNCHANGED << dispatchVars, fnVars >>

\* The application calls intent.verify(): the fields are read and checked
\* in the caller's run. The promise is settled at once when a field is
\* missing or something raised; otherwise it is pending on the await.
VerifyCall ==
    /\ verifying = "none"
    /\ LET v == Verify(intent) IN
         IF v.awaited
         THEN verifying' = BoolText(v.value) /\ UNCHANGED outcome
         ELSE /\ outcome' = IF v.threw THEN Rejected("verify", "raised")
                            ELSE Resolved("verify", BoolText(v.value))
              /\ UNCHANGED verifying
    /\ UNCHANGED << intent, confirmPc, isValid, sendFn, sendCount, lastSent >>
    /\ UNCHANGED << dispatchVars, fnVars >>

\* `await ed.verify(...)` resumes: verify() resolves with what the check
\* gave on the fields it had read.
VerifyResume ==
    /\ verifying # "none"
    /\ outcome' = Resolved("verify", verifying)
    /\ verifying' = "none"
    /\ UNCHANGED << intent, confirmPc, isValid, sendFn, sendCount, lastSent >>
    /\ UNCHANGED << dispatchVars, fnVars >>

\* intent.confirm(fn) is called: it runs verify() and awaits it.
ConfirmStart(fn) ==
    /\ confirmPc = "idle"
    /\ sendCount < MaxSends
    /\ fn \in SendFns
    /\ confirmPc' = "verifying"
    /\ isValid' = ConfirmIsValid
    /\ sendFn' = fn
    /\ UNCHANGED << intent, verifying, sendCount, lastSent, outcome >>
    /\ UNCHANGED << dispatchVars, fnVars >>

\* verify() has resolved: confirm throws, or invokes sendFn([this]) with
\* the Intent as it is now. confirm is settled in this run when it throws
\* or sendFn answers synchronously; it waits when sendFn returned a promise.
ConfirmResume ==
    /\ confirmPc = "verifying"
    /\ LET s == ConfirmSettle(isValid, sendFn) IN
         /\ sendCount' = IF s.sent THEN sendCount + 1 ELSE sendCount
         /\ lastSent' = IF s.sent THEN intent ELSE lastSent
         /\ IF s.sent /\ sendFn \in AsyncSendFns
            THEN /\ confirmPc' = "sending"
                 /\ UNCHANGED << outcome, sendFn >>
            ELSE /\ confirmPc' = "idle"
                 /\ outcome' = s.outcome
                 /\ sendFn' = "none"
    /\ isValid' = FALSE
    /\ UNCHANGED << intent, verifying >>
    /\ UNCHANGED << dispatchVars, fnVars >>

\* The promise sendFn returned settles: confirm settles the same way.
ConfirmReturn ==
    /\ confirmPc = "sending"
    /\ outcome' = ConfirmSettle(TRUE, sendFn).outcome
    /\ confirmPc' = "idle"
    /\ sendFn' = "none"
    /\ UNCHANGED << intent, verifying, isValid, sendCount, lastSent >>
    /\ UNCHANGED << dispatchVars, fnVars >>

\* No Intent has been sent yet.
NoIntent == [transaction |-> "absent", signature |-> "absent", pubkey |-> "absent"]

InitIntent ==
    /\ intent = NoIntent
    /\ verifying = "none"
    /\ confirmPc = "idle"
    /\ isValid = FALSE
    /\ sendFn = "none"
    /\ sendCount = 0
    /\ lastSent = NoIntent
    /\ outcome = NoOutcome

\* No function is under study outside SpecFn.
NoArgs == [fn |-> "none"]
NoRet == [set |-> FALSE]

InitFn ==
    /\ args = NoArgs
    /\ ret = NoRet

Init == InitDispatch /\ InitIntent /\ InitFn

Next ==
    \/ \E c \in Calls, p \in Paths : Start(c, p)
    \/ \E c \in Calls : Dispose(c)
    \/ \E c \in Calls, r \in FetchResponses : MetaResponse(c, r)
    \/ \E c \in Calls : MetaJson(c)
    \/ \E c \in Calls : Dispatch(c)
    \/ \E f \in sessInflight, r \in FetchResponses : SessionResponse(f, r)
    \/ \E f \in sessReading : SessionJson(f)
    \/ \E c \in Calls : \E r \in AttestedResponses(calls[c].body.ctKey) :
          AttestedResponse(c, r)
    \/ \E c \in Calls : AttestedBody(c)
    \/ \E c \in Calls, r \in PlainResponses : PlainResponse(c, r)
    \/ \E c \in Calls : PlainJson(c)
    \/ Construct
    \/ ClearSessionCache
    \/ ClearMetaCache
    \/ Rotate

InitSpec == InitServer /\ InitIntent /\ InitFn

Spec == InitSpec /\ [][Next]_vars

(***************************************************************************)
(* Claims about the dispatcher (Spec).                                     *)
(***************************************************************************)
\* C2: the stale-ciphertext retry fires at most once per call: a call makes
\* at most two attempts; the second starts only from a first attempt's
\* stale-ciphertext error, with the session cache cleared, and goes on to
\* resolve its route again; a stale-ciphertext error is surfaced only by
\* the second attempt, and a settled call starts nothing further.
C2_RetryAtMostOnce ==
    [][ \A c \in Calls :
          /\ calls'[c].attempt <= 2
          /\ (calls[c].attempt = 1 /\ calls'[c].attempt = 2)
             => /\ IsStaleError(calls'[c].firstErr)
                /\ IsNull(sessionCache')
                /\ invalidations' = invalidations + 1
                /\ calls'[c].pc \in {"metaWait", "routeWait"}
          /\ (calls'[c].pc = "done" /\ calls'[c].kind = "error"
                 /\ IsStaleError(calls'[c].err))
             => calls'[c].attempt = 2
          /\ calls[c].pc = "done" => calls'[c] = calls[c]
      ]_vars

\* C2 witness: a call whose first attempt and retry both got the stale
\* signal has rejected with it.
C2_Witness ==
    \E c \in Calls :
        /\ calls[c].pc = "done"
        /\ calls[c].attempt = 2
        /\ calls[c].firstErr = ErrStale
        /\ calls[c].kind = "error"
        /\ calls[c].err = ErrStale

\* C3: only the stale-ciphertext signal (a 2xx attested body with error
\* "stale ciphertext") starts a second attempt; every other error settles
\* the call at its first attempt.
C3_OnlyStaleSignalRetries ==
    \A c \in Calls : calls[c].attempt = 2 => calls[c].firstErr = ErrStale

\* C4: after the stale signal, the retry attempt seals its envelope with a
\* Session whose GET /session was issued after the call's invalidation.
C4_RetryUsesFreshSession ==
    \A c \in Calls :
        (calls[c].attempt = 2 /\ calls[c].firstErr = ErrStale
           /\ calls[c].pc = "postWait")
        => calls[c].session.gen >= calls[c].invalAt

\* C5: a call whose first attempt got the stale signal and whose retry
\* succeeded resolves with the retry's result and no error; no executor
\* result is ever made from a stale-ciphertext body.
C5_StaleNotSurfacedOnSuccess ==
    [][ \A c \in Calls :
          /\ calls'[c].val.error # StaleText
          /\ (calls[c].attempt = 2 /\ calls[c].pc \in {"postWait", "postBody"}
                 /\ calls'[c].pc = "done" /\ calls'[c].kind # "error")
             => /\ calls'[c].err = << >>
                /\ calls'[c].kind \in {"value", "null"}
                /\ calls'[c].val.type = "intent"
                   => calls'[c].val.key = calls[c].body.ctKey
      ]_vars

\* C5 witness: first attempt stale, retry returned an Intent.
C5_Witness ==
    \E c \in Calls :
        /\ calls[c].pc = "done"
        /\ calls[c].attempt = 2
        /\ calls[c].firstErr = ErrStale
        /\ calls[c].kind = "value"
        /\ calls[c].val.type = "intent"

\* C6: the Intent an attested attempt returns carries the integrity key of
\* the Session that attempt obtained and sealed its request for, whatever
\* the session cache holds when the response's body has been read.
C6_IntentKeyFromAttemptSession ==
    [][ \A c \in Calls :
          (calls[c].pc = "postBody" /\ calls'[c].pc = "done"
             /\ calls'[c].val.type = "intent")
          => /\ calls'[c].val.key = calls[c].session.epoch
             /\ calls'[c].val.key = calls[c].body.ctKey
      ]_vars

\* C6 witness: an attempt is in flight with a Session that the cache, since
\* replaced, no longer holds, while another call has already got an Intent
\* under a key other than the cached one.
C6_Witness ==
    \E c, d \in Calls :
        /\ calls[c].pc = "done"
        /\ calls[c].val.type = "intent"
        /\ sessionCache.present
        /\ calls[c].val.key # sessionCache.epoch
        /\ calls[d].pc = "postWait"
        /\ calls[d].session # sessionCache

\* C8: getSession issues GET /session exactly when the session cache is
\* empty at the call, in an attested attempt's executor as in the
\* constructor's prefetch: with a cached Session it returns that Session and
\* sends nothing; the cache is empty after clearSessionCache, whatever it
\* held, and right after the dispatcher's invalidation.
C8_FetchIffCacheEmpty ==
    [][ /\ \A c \in Calls :
             (Dispatch(c) /\ calls[c].path \in AttestedPaths)
             => IF IsNull(sessionCache)
                THEN /\ calls'[c].pc = "sessWait"
                     /\ \E f \in sessInflight' \ sessInflight : f.owner = c
                ELSE /\ calls'[c].pc \in {"postWait", "done"}
                     /\ calls'[c].pc = "postWait"
                        => calls'[c].session = sessionCache
                     /\ sessInflight' = sessInflight
        /\ (prefetch = "init" /\ prefetch' # "init")
             => IF IsNull(sessionCache)
                THEN \E f \in sessInflight' \ sessInflight : f.owner = Pre
                ELSE prefetch' = "done" /\ sessInflight' = sessInflight
        /\ ~(sessInflight' \subseteq sessInflight)
             => /\ IsNull(sessionCache)
                /\ \/ prefetch = "init"
                   \/ \E c \in Calls : calls[c].pc = "routeWait"
        /\ ClearSessionCache => IsNull(sessionCache')
        /\ (sessionCache.present /\ IsNull(sessionCache'))
             => \/ invalidations' = invalidations + 1
                \/ UNCHANGED << sessInflight, sessReading, invalidations,
                                calls, prefetch >>
      ]_vars

\* C8 witness: both calls hold the cached Session for their POSTs although
\* the server's key has rotated since it was fetched, and no GET /session is
\* in flight.
C8_Witness ==
    \E c, d \in Calls :
        /\ c # d
        /\ calls[c].pc = "postWait"
        /\ calls[d].pc = "postWait"
        /\ calls[c].session = sessionCache
        /\ calls[d].session = sessionCache
        /\ sessionCache.epoch # serverEpoch
        /\ sessInflight = {}

\* C9: when a GET /session completes after another one, issued while the
\* first was in flight, has filled the cache, its write leaves the cached
\* keys as they were: either fetch alone would have cached the same value.
C9_OverlappingFetchesAgree ==
    [][ \A f \in sessReading :
          (SessionJson(f) /\ sessionCache.present)
          => sessionCache'.epoch = sessionCache.epoch
      ]_vars

\* C10: per attempt exactly one executor runs for a resolved route, the
\* attested one exactly for routes flagged attested; a plain route never
\* obtains a Session or seals anything, and an attested route's request
\* body is the sealed one, never the bare payload.
C10_ExecutorMatchesRoute ==
    \A c \in Calls :
        LET cr == calls[c]
            known == cr.path \in AttestedPaths \cup PlainPaths
            attested == cr.path \in AttestedPaths
        IN  /\ cr.pc \in {"sessWait", "sessBody", "postWait", "postBody"}
               => attested
            /\ cr.pc \in {"plainWait", "plainBody"}
               => (known /\ ~attested /\ cr.body = PlainBody)
            /\ cr.pc \in {"postWait", "postBody"}
               => (cr.session.present /\ cr.body = SealedBody(cr.session))
            /\ cr.body.type = "sealed" => attested
            /\ cr.body.type = "plain" => (known /\ ~attested)
            /\ ~attested => /\ IsNull(cr.session)
                            /\ \A f \in sessInflight \cup sessReading :
                                  f.owner # c

\* C10 witness: one call is inside the plain executor while the other is
\* inside the attested one.
C10_Witness ==
    \E c, d \in Calls :
        /\ calls[c].pc = "plainWait"
        /\ calls[d].pc = "postWait"
        /\ calls[d].body.type = "sealed"

\* C11: a call whose path has no registry entry runs neither executor: it
\* never obtains a Session, builds no request body, sends no GET /session
\* and no POST, and once the registry is there it resolves to null; it
\* rejects only when the registry itself could not be fetched.
C11_RouteMissIsNull ==
    \A c \in Calls :
        (calls[c].pc # "idle" /\ calls[c].path \notin AttestedPaths \cup PlainPaths)
        => /\ calls[c].pc \in {"metaWait", "metaBody", "routeWait", "done"}
           /\ IsNull(calls[c].session)
           /\ calls[c].body = NoBody
           /\ calls[c].attempt = 1
           /\ \A f \in sessInflight \cup sessReading : f.owner # c
           /\ calls[c].pc = "done"
              => \/ calls[c].kind = "null" /\ calls[c].err = << >>
                 \/ /\ calls[c].kind = "error"
                    /\ calls[c].err \in {ErrTimeout, ErrNetwork, ErrMeta("500")}

\* C11 witness: a call for the unlisted path has resolved to null.
C11_Witness ==
    \E c \in Calls :
        /\ calls[c].pc = "done"
        /\ calls[c].path = << "ghost", "route" >>
        /\ calls[c].kind = "null"
        /\ metaCache

\* C12: a 404 answer to the operation POST, plain or attested, settles the
\* call with null and no error, in the attempt it answers, without touching
\* the session cache and without any new request.
C12_NotFoundIsNull ==
    [][ \A c \in Calls :
          LET r == Resp("404", "", "", FALSE, FALSE) IN
          (AttestedResponse(c, r) \/ PlainResponse(c, r))
          => /\ calls'[c].pc = "done"
             /\ calls'[c].kind = "null"
             /\ calls'[c].err = << >>
             /\ calls'[c].attempt = calls[c].attempt
             /\ sessionCache' = sessionCache
             /\ invalidations' = invalidations
             /\ sessInflight' = sessInflight
             /\ sessReading' = sessReading
      ]_vars

\* C12 witness: an attested call and a plain call have both resolved to
\* null for listed routes, and the session cache still holds its Session.
C12_Witness ==
    \E c, d \in Calls :
        /\ calls[c].pc = "done" /\ calls[c].kind = "null"
        /\ calls[c].path \in AttestedPaths
        /\ calls[d].pc = "done" /\ calls[d].kind = "null"
        /\ calls[d].path \in PlainPaths
        /\ sessionCache.present

\* C13: every value an attested call resolves with is an Intent, never the
\* raw response body.
C13_AttestedValueIsIntent ==
    \A c \in Calls :
        (calls[c].pc = "done" /\ calls[c].kind = "value"
           /\ calls[c].path \in AttestedPaths)
        => calls[c].val.type = "intent"

\* C14: a deadline expiry on GET /meta, GET /session or the operation POST
\* settles the call with the timeout error, which names the timeout and is
\* none of the HTTP-status errors, in the attempt it hits: no retry, no cache
\* clear, no new request. A second attempt only ever follows an error whose
\* message contains the stale-ciphertext text.
C14_TimeoutNotRetried ==
    [][ \A c \in Calls :
          LET r == Resp("timeout", "", "", FALSE, FALSE) IN
          /\ ( /\ calls'[c] # calls[c]
               /\ \/ MetaResponse(c, r)
                  \/ AttestedResponse(c, r)
                  \/ PlainResponse(c, r)
                  \/ \E f \in sessInflight :
                        f.owner = c /\ SessionResponse(f, r) )
             => /\ calls'[c].pc = "done"
                /\ calls'[c].kind = "error"
                /\ calls'[c].err = << "Request timeout after", "30000ms" >>
                /\ calls'[c].err \notin
                     { ErrApi("500"), ErrMeta("500"),
                       << "Sona: /session failed", "500" >> }
                     \cup { ErrAttested("500", t) :
                               t \in {"", "internal error", StaleText} }
                /\ calls'[c].attempt = calls[c].attempt
                /\ sessionCache' = sessionCache
                /\ invalidations' = invalidations
                /\ sessInflight' \subseteq sessInflight
                /\ sessReading' = sessReading
          /\ (calls[c].attempt >= 1 /\ calls'[c].attempt > calls[c].attempt)
             => Includes(calls'[c].firstErr, StaleText)
      ]_vars

\* C14 witness: an attested call and a plain call have both been rejected
\* with the timeout error at their first attempt.
C14_Witness ==
    \E c, d \in Calls :
        /\ calls[c].pc = "done" /\ calls[c].err = ErrTimeout
        /\ calls[c].path \in AttestedPaths /\ calls[c].attempt = 1
        /\ calls[d].pc = "done" /\ calls[d].err = ErrTimeout
        /\ calls[d].path \in PlainPaths

\* The step makes call c, on an attested route, reach getSession: its
\* `await fetchRouteMetadata` resumes.
ReachesGetSession(c) == calls[c].path \in AttestedPaths /\ Dispatch(c)

\* C15 as stated: a non-2xx answer to GET /meta or to a call's GET /session
\* settles the call with the error naming the endpoint and the status,
\* leaves the corresponding cache empty, and no POST is sent for the call.
C15_FetchFailureLeavesCacheEmpty ==
    [][ \A c \in Calls :
          LET r == Resp("500", "", "", FALSE, FALSE) IN
          /\ MetaResponse(c, r)
             => /\ calls'[c].pc = "done"
                /\ calls'[c].kind = "error"
                /\ calls'[c].err = << "Sona: /meta failed", "500" >>
                /\ ~metaCache'
          /\ \A f \in sessInflight :
                (f.owner = c /\ SessionResponse(f, r))
                => /\ calls'[c].pc = "done"
                   /\ calls'[c].kind = "error"
                   /\ calls'[c].err = << "Sona: /session failed", "500" >>
                   /\ calls[c].body = NoBody
                   /\ IsNull(sessionCache')
      ]_vars

\* C15 (amended): a non-2xx answer to GET /meta or to a call's GET /session
\* settles the call with the error naming the endpoint and the status,
\* writes neither cache (an empty cache stays empty, a cache that an
\* overlapping fetch has filled meanwhile stays filled), and is followed
\* by no POST and no other request of that call; the next get fetches
\* exactly when it finds its cache empty.
C15_FetchFailureRejects ==
    [][ \A c \in Calls :
          LET r == Resp("500", "", "", FALSE, FALSE) IN
          /\ MetaResponse(c, r)
             => /\ calls'[c].pc = "done"
                /\ calls'[c].kind = "error"
                /\ calls'[c].err = << "Sona: /meta failed", "500" >>
                /\ metaCache' = metaCache
                /\ sessionCache' = sessionCache
                /\ sessInflight' = sessInflight
                /\ sessReading' = sessReading
          /\ \A f \in sessInflight :
                (f.owner = c /\ SessionResponse(f, r))
                => /\ calls'[c].pc = "done"
                   /\ calls'[c].kind = "error"
                   /\ calls'[c].err = << "Sona: /session failed", "500" >>
                   /\ calls[c].body = NoBody
                   /\ sessionCache' = sessionCache
                   /\ metaCache' = metaCache
                   /\ sessInflight' = sessInflight \ {f}
                   /\ sessReading' = sessReading
          /\ \A p \in Paths :
                Start(c, p)
                => calls'[c].pc = IF metaCache THEN "routeWait" ELSE "metaWait"
          /\ ReachesGetSession(c)
             => IF IsNull(sessionCache)
                THEN /\ calls'[c].pc = "sessWait"
                     /\ \E f \in sessInflight' \ sessInflight : f.owner = c
                ELSE /\ calls'[c].pc # "sessWait"
                     /\ sessInflight' = sessInflight
      ]_vars

\* C15 witness: one call was rejected by a failed GET /meta, the other by a
\* failed GET /session, and the session cache is empty.
C15_Witness ==
    \E c, d \in Calls :
        /\ calls[c].pc = "done" /\ calls[c].err = ErrMeta("500")
        /\ calls[d].pc = "done"
        /\ calls[d].err = << "Sona: /session failed", "500" >>
        /\ IsNull(sessionCache)
        /\ sessInflight = {}
        /\ sessReading = {}

\* C16: a non-2xx, non-404 answer to the operation POST settles the call
\* with an error and no value: the plain error names the status, the
\* attested error the status and the body text.
C16_ApiErrorRejects ==
    [][ \A c \in Calls :
          /\ PlainResponse(c, Resp("500", "", "", FALSE, FALSE))
             => /\ calls'[c].pc = "done"
                /\ calls'[c].kind = "error"
                /\ calls'[c].err = << "Sona: API error", "500" >>
          /\ \A t \in {"", "internal error", StaleText} :
                (AttestedBody(c)
                   /\ calls[c].resp = Resp("500", t, "", FALSE, FALSE))
                => /\ calls'[c].pc = "done"
                   /\ calls'[c].kind = "error"
                   /\ calls'[c].err = << "Sona: Attested API error", "500", t >>
      ]_vars

\* C17: getMeta sends GET /meta exactly when the registry cache is empty as
\* an attempt begins, the retry attempt included; a cached registry is used
\* with no request. The cache is filled only by a 2xx GET /meta and emptied
\* only by clearMetaCache, not by the stale-ciphertext invalidation.
C17_MetaFetchIffCacheEmpty ==
    [][ /\ \A c \in Calls :
             LET begins == \/ calls[c].pc = "idle" /\ calls'[c].pc # "idle"
                           \/ calls[c].attempt = 1 /\ calls'[c].attempt = 2
             IN  /\ begins => calls'[c].pc = IF metaCache THEN "routeWait"
                                             ELSE "metaWait"
                 /\ (calls'[c].pc = "metaWait" /\ calls[c].pc # "metaWait")
                    => begins
        /\ (~metaCache /\ metaCache')
             => \E c \in Calls :
                   /\ calls[c].pc = "metaBody"
                   /\ calls'[c].pc = "routeWait"
        /\ (metaCache /\ ~metaCache')
             => UNCHANGED << sessionCache, sessInflight, sessReading,
                             invalidations, calls >>
      ]_vars

\* C17 witness: a retry attempt has resolved its route from the cached
\* registry and is at its POST, and the other call is at its POST too,
\* with no GET /meta in flight.
C17_Witness ==
    \E c, d \in Calls :
        /\ c # d
        /\ calls[c].attempt = 2 /\ calls[c].pc = "postWait"
        /\ calls[d].attempt = 1 /\ calls[d].pc \in {"postWait", "plainWait"}
        /\ metaCache

\* C24: when the Session's encryption key is not 32 bytes long, an attested
\* call that has obtained its Session rejects with the encryption error
\* and no ciphertext, and no operation POST is ever sent for it.
C24_BadKeyFailsBeforePost ==
    [][\A c \in Calls :
         LET cr == calls[c]
             nx == calls'[c]
             failed == /\ nx.pc = "done"
                       /\ nx.kind = "error"
                       /\ nx.err = << "x25519: invalid u coordinate length" >>
                       /\ nx.body.type = "none" IN
         /\ (nx.pc = "postWait" /\ cr.pc # "postWait") => serverKeyLen = 32
         /\ (nx.body.type = "sealed") => serverKeyLen = 32
         /\ (serverKeyLen \in {0, 31, 33}) =>
              /\ \A f \in sessReading :
                   (f.owner = c /\ SessionJson(f)) => failed
              /\ (/\ ~IsNull(sessionCache)
                  /\ cr.path \in AttestedPaths
                  /\ Dispatch(c))
                 => failed
      ]_vars

\* C24 witness: the server's key is 31 bytes long; an attested call has
\* fetched the Session, which is now cached, and was rejected with the
\* encryption error.
C24_Witness ==
    /\ serverKeyLen = 31
    /\ ~IsNull(sessionCache)
    /\ \E c \in Calls :
         /\ calls[c].pc = "done"
         /\ calls[c].path \in AttestedPaths
         /\ calls[c].kind = "error"
         /\ calls[c].err = ErrKeyLength

\* C25: dispose() is a no-op: the step that calls it sends no request and
\* leaves both caches as they were, and no later step of that call writes
\* a cache.
C25_DisposeIsNoOp ==
    [][\A c \in Calls :
         /\ Dispose(c) =>
              /\ calls'[c].pc \notin {"metaWait", "sessWait", "postWait",
                                       "plainWait"}
              /\ UNCHANGED << sessionCache, metaCache, sessInflight,
                              sessReading >>
         /\ (calls[c].path = << "dispose" >> /\ calls'[c] # calls[c]) =>
              UNCHANGED << sessionCache, metaCache >>
      ]_vars

\* C28: within an attested attempt the operation POST is sent only once
\* the attempt holds a Session, either the one its own GET /session has
\* just returned or the one getSession found cached, with the envelope
\* sealed under that Session's key and nothing sent before; the body of the
\* answer is read only once the POST has returned, and it is parsed (into a
\* value, an Intent or the stale signal) only once it has been read.
C28_SessionEncryptSendParse ==
    [][\A c \in Calls :
         LET cr == calls[c]
             nx == calls'[c] IN
         /\ (nx.pc = "postWait" /\ nx # cr) =>
              /\ cr.pc \in {"routeWait", "sessBody"}
              /\ cr.body.type = "none"
              /\ nx.session.present
              /\ nx.body.type = "sealed"
              /\ nx.body.ctKey = nx.session.epoch
              /\ IF cr.pc = "sessBody"
                 THEN \E f \in sessReading :
                        /\ f.owner = c
                        /\ f \notin sessReading'
                        /\ nx.session.epoch = f.epoch
                        /\ nx.session.gen = f.gen
                 ELSE nx.session = sessionCache
         /\ (nx.pc \in {"sessWait", "sessBody"}) =>
              ~nx.session.present /\ nx.body.type = "none"
         /\ (nx.pc = "sessWait" /\ cr.pc # "sessWait") => cr.pc = "routeWait"
         /\ (nx.pc = "sessBody" /\ cr.pc # "sessBody") => cr.pc = "sessWait"
         /\ (nx.pc = "postBody" /\ cr.pc # "postBody") =>
              /\ cr.pc = "postWait"
              /\ nx.session = cr.session /\ nx.body = cr.body
         /\ (nx.path \in AttestedPaths /\ cr.pc # "done" /\ nx.pc = "done"
               /\ nx.kind = "value")
              => cr.pc = "postBody" /\ cr.body.type = "sealed"
         /\ (nx.firstErr = << "stale ciphertext" >> /\ cr.firstErr = << >>)
              => cr.pc = "postBody" /\ cr.body.type = "sealed"
      ]_vars

\* C28 witness: after a rotation an attempt has fetched the new Session,
\* sealed under its key and is waiting for the POST.
C28_Witness ==
    \E c \in Calls :
        /\ calls[c].pc = "postWait"
        /\ calls[c].attempt = 2
        /\ calls[c].session.present
        /\ calls[c].session.epoch = 1
        /\ calls[c].body.type = "sealed"
        /\ calls[c].body.ctKey = 1

\* The step leaves call c rejected before any POST with an error that is
\* not the stale-ciphertext signal, on the attempt it was in, and without an
\* invalidation.
RejectedUnsealed(c, err) ==
    /\ calls'[c].pc = "done"
    /\ calls'[c].kind = "error"
    /\ calls'[c].err = err
    /\ ~IsStaleError(err)
    /\ calls'[c].body.type = "none"
    /\ calls'[c].attempt = calls[c].attempt
    /\ invalidations' = invalidations

\* C36 as stated: whenever the 2xx /session body lacks the encryption key
\* (an object without the field, or the body null), the body is cached as
\* parsed, the call that fetched it and every later attested call reject
\* at encryption with a non-stale error, without invalidation or retry, each
\* later call being served from the cache, and the cache stays populated
\* until clearSessionCache is called.
C36_KeylessBodyStaysCached ==
    [][ (serverKeyLen \in {KeyAbsent, BodyNull}) =>
          /\ \A f \in sessReading :
               SessionJson(f)
               => /\ sessionCache' = Session(f.epoch, f.gen)
                  /\ sessReading' = sessReading \ {f}
                  /\ f.owner \in Calls => RejectedUnsealed(f.owner, ErrKeyType)
          /\ \A c \in Calls :
               (~IsNull(sessionCache) /\ ReachesGetSession(c))
               => /\ RejectedUnsealed(c, ErrKeyType)
                  /\ UNCHANGED << sessionCache, sessInflight, sessReading >>
          /\ \A c \in Calls :
               (IsNull(sessionCache) /\ ReachesGetSession(c))
               => calls'[c].pc = "sessWait"
          /\ (~IsNull(sessionCache) /\ IsNull(sessionCache'))
               => ClearSessionCache
      ]_vars

\* C36, amended: that holds for a body that is an object without the key.
\* The body null is stored too but reads as an empty cache: the call that
\* fetched it rejects with a non-stale TypeError, without invalidation or
\* retry, and every later attested call sends GET /session again.
C36_KeylessObjectStaysCached ==
    [][ /\ (serverKeyLen = KeyAbsent) =>
          /\ \A f \in sessReading :
               SessionJson(f)
               => /\ sessionCache' = Session(f.epoch, f.gen)
                  /\ sessReading' = sessReading \ {f}
                  /\ f.owner \in Calls => RejectedUnsealed(f.owner, ErrKeyType)
          /\ \A c \in Calls :
               (~IsNull(sessionCache) /\ ReachesGetSession(c))
               => /\ RejectedUnsealed(c, ErrKeyType)
                  /\ UNCHANGED << sessionCache, sessInflight, sessReading >>
          /\ \A c \in Calls :
               (IsNull(sessionCache) /\ ReachesGetSession(c))
               => calls'[c].pc = "sessWait"
          /\ (~IsNull(sessionCache) /\ IsNull(sessionCache'))
               => ClearSessionCache
        /\ (serverKeyLen = BodyNull) =>
          /\ IsNull(sessionCache) /\ IsNull(sessionCache')
          /\ \A f \in sessReading :
               SessionJson(f)
               => /\ sessReading' = sessReading \ {f}
                  /\ f.owner \in Calls
                       => RejectedUnsealed(f.owner, ErrNullSession)
          /\ \A c \in Calls :
               ReachesGetSession(c)
               => /\ calls'[c].pc = "sessWait"
                  /\ \E f \in sessInflight' \ sessInflight : f.owner = c
      ]_vars

\* C36 witness: the server's body has no key; the first call fetched it and
\* was rejected, the body stayed cached, and the second call, started
\* afterwards, was rejected on it too, with no invalidation.
C36_Witness ==
    /\ serverKeyLen = KeyAbsent
    /\ ~IsNull(sessionCache)
    /\ sessInflight = {}
    /\ prefetch = "done"
    /\ invalidations = 0
    /\ \A c \in Calls :
         /\ calls[c].pc = "done"
         /\ calls[c].path \in AttestedPaths
         /\ calls[c].err = ErrKeyType

\* C37 as stated: the constructor's session prefetch never surfaces; a
\* failed prefetch leaves the session cache empty, a successful one stores
\* what it fetched.
C37_FailedPrefetchLeavesCacheEmpty ==
    [][ /\ Construct
           => /\ prefetch' = IF IsNull(sessionCache) THEN "wait" ELSE "done"
              /\ UNCHANGED << calls, sessionCache, invalidations >>
        /\ \A f \in sessInflight : \A r \in FetchResponses :
             (f.owner = Pre /\ SessionResponse(f, r))
             => /\ prefetch' = IF r.status = "200" THEN "read" ELSE "done"
                /\ UNCHANGED << calls, invalidations >>
                /\ r.status # "200" => IsNull(sessionCache')
        /\ \A f \in sessReading :
             (f.owner = Pre /\ SessionJson(f))
             => /\ prefetch' = "done"
                /\ sessionCache' = ParsedSession(f)
                /\ UNCHANGED << calls, invalidations >>
      ]_vars

\* C37 (amended): the constructor's session prefetch never surfaces: the
\* constructor returns whether or not a GET /session was started; whatever
\* answer the prefetch's GET gets, the prefetch resolves or goes on to read
\* the body, and no call is settled, retried or invalidated by it; a failed
\* prefetch writes nothing (the cache stays empty, or filled if a call's
\* own fetch has filled it meanwhile) and starts nothing, so an attested
\* call that then finds the cache empty sends its own GET /session; a
\* successful prefetch stores the parsed body in the cache getSession reads,
\* so an attested call that then finds it populated sends no GET /session.
C37_PrefetchNeverSurfaces ==
    [][ /\ Construct
           => /\ prefetch' = IF IsNull(sessionCache) THEN "wait" ELSE "done"
              /\ UNCHANGED << calls, sessionCache, invalidations >>
        /\ \A f \in sessInflight : \A r \in FetchResponses :
             (f.owner = Pre /\ SessionResponse(f, r))
             => /\ prefetch' = IF r.status = "200" THEN "read" ELSE "done"
                /\ sessInflight' = sessInflight \ {f}
                /\ UNCHANGED << calls, invalidations, sessionCache >>
        /\ \A f \in sessReading :
             (f.owner = Pre /\ SessionJson(f))
             => /\ prefetch' = "done"
                /\ sessionCache' = ParsedSession(f)
                /\ UNCHANGED << calls, invalidations, sessInflight >>
        /\ \A c \in Calls :
             (prefetch = "done" /\ ReachesGetSession(c))
             => IF IsNull(sessionCache)
                THEN /\ calls'[c].pc = "sessWait"
                     /\ \E f \in sessInflight' \ sessInflight : f.owner = c
                ELSE /\ calls'[c].pc # "sessWait"
                     /\ sessInflight' = sessInflight
      ]_vars

\* C37 witness: the prefetch failed, the cache was left empty, and the first
\* attested call is fetching the Session itself.
C37_Witness ==
    /\ prefetch = "done"
    /\ IsNull(sessionCache)
    /\ serverKeyLen = 32
    /\ calls["c1"].pc = "sessWait"
    /\ calls["c2"].pc = "idle"
    /\ sessInflight = {NewFetch("c1", 0)}
    /\ sessReading = {}

\* C29: the session cache goes from present to absent only in a call of
\* clearSessionCache by the application or in the step in which a call
\* has read the stale-ciphertext signal; a step that ends an attempt in a
\* value, null, an HTTP error, an encryption error or a timeout leaves a
\* cached Session in place.
C29_OnlyInvalidationClears ==
    [][(~IsNull(sessionCache) /\ IsNull(sessionCache'))
         => \/ ClearSessionCache
            \/ \E c \in Calls :
                  /\ calls[c].pc = "postBody"
                  /\ calls[c].attempt = 1
                  /\ calls'[c].attempt = 2
                  /\ calls'[c].firstErr = << "stale ciphertext" >>
                  /\ calls[c].resp = Resp("200", "", "stale ciphertext",
                                          FALSE, FALSE)
                  /\ AttestedBody(c)
      ]_vars

(***************************************************************************)
(* SpecLive: one call of the dispatcher, under fairness. fetchWithTimeout  *)
(* arms a timer for each request and clears it as soon as the fetch        *)
(* settles, so every request sent settles; the read of a body that follows *)
(* has no timer.                                                           *)
(***************************************************************************)
NextLive ==
    \/ \E p \in Paths : Start("c1", p)
    \/ \E r \in FetchResponses : MetaResponse("c1", r)
    \/ MetaJson("c1")
    \/ Dispatch("c1")
    \/ \E f \in sessInflight, r \in FetchResponses : SessionResponse(f, r)
    \/ \E f \in sessReading : SessionJson(f)
    \/ \E r \in AttestedResponses(calls["c1"].body.ctKey) :
          AttestedResponse("c1", r)
    \/ AttestedBody("c1")
    \/ \E r \in PlainResponses : PlainResponse("c1", r)
    \/ PlainJson("c1")
    \/ Construct
    \/ ClearSessionCache
    \/ ClearMetaCache
    \/ Rotate

\* Every request fetchWithTimeout has sent settles: it is answered, fails,
\* or is aborted when its timer fires; and an await whose promise is settled
\* resumes. Nothing bounds the read of a body: the timer was cleared when
\* the headers came in.
FairLive ==
    /\ WF_vars(\E r \in FetchResponses : MetaResponse("c1", r))
    /\ WF_vars(Dispatch("c1"))
    /\ WF_vars(\E f \in sessInflight, r \in FetchResponses :
                  SessionResponse(f, r))
    /\ WF_vars(\E r \in AttestedResponses(calls["c1"].body.ctKey) :
                  AttestedResponse("c1", r))
    /\ WF_vars(\E r \in PlainResponses : PlainResponse("c1", r))

SpecLive == Init /\ [][NextLive]_vars /\ FairLive

\* C30: every call that has started eventually settles.
C30_EveryCallSettles ==
    \A c \in Calls : (calls[c].pc # "idle") ~> (calls[c].pc = "done")

NextIntent ==
    \/ \E i \in Intents : SetField(i)
    \/ VerifyCall
    \/ VerifyResume
    \/ \E fn \in SendFns : ConfirmStart(fn)
    \/ ConfirmResume
    \/ ConfirmReturn

SpecIntent == Init /\ [][NextIntent]_vars

(***************************************************************************)
(* Claims about the Intent (SpecIntent).                                   *)
(***************************************************************************)
\* C1: every confirm(sendFn) runs verify on the Intent as it is at the call,
\* whatever verify or confirm calls came before; when that verify resolved
\* false, confirm rejects with the integrity-verification error and sendFn
\* is not invoked; when it resolved true, sendFn is invoked exactly once,
\* with the Intent, and confirm settles as sendFn does, in the same run when
\* sendFn answers synchronously and once its promise settles otherwise.
C1_ConfirmVerifiesThenSends ==
    [][ /\ (confirmPc = "idle" /\ confirmPc' # "idle")
            => /\ confirmPc' = "verifying"
               /\ isValid' = Verify(intent).value
               /\ UNCHANGED << sendCount, lastSent, outcome >>
        /\ (confirmPc = "verifying" /\ confirmPc' # "verifying")
            => IF isValid
               THEN /\ sendCount' = sendCount + 1
                    /\ lastSent' = intent
                    /\ IF sendFn \in AsyncSendFns
                       THEN confirmPc' = "sending" /\ outcome' = outcome
                       ELSE /\ confirmPc' = "idle"
                            /\ outcome' = IF sendFn = "throws"
                                  THEN Rejected("confirm", "sendFn threw")
                                  ELSE Resolved("confirm", sendFn)
               ELSE /\ sendCount' = sendCount
                    /\ lastSent' = lastSent
                    /\ confirmPc' = "idle"
                    /\ outcome' = Rejected("confirm", "integrity")
        /\ (confirmPc = "sending" /\ confirmPc' # "sending")
            => /\ confirmPc' = "idle"
               /\ sendCount' = sendCount
               /\ lastSent' = lastSent
               /\ outcome' = IF sendFn = "asyncThrows"
                             THEN Rejected("confirm", "sendFn threw")
                             ELSE Resolved("confirm", sendFn)
        /\ (sendCount' # sendCount
              \/ (outcome'.op = "confirm" /\ outcome' # outcome))
            => confirmPc' # confirmPc
      ]_vars

\* C1 witness: after a confirm that sent, a later confirm of the Intent, by
\* then no longer valid, was rejected without a second send.
C1_Witness ==
    /\ sendCount = 1
    /\ confirmPc = "idle"
    /\ outcome = Rejected("confirm", "integrity")
    /\ ~Verify(intent).value
    /\ Verify(lastSent).value

\* C7: verify() never rejects; it resolves false, with no decoding started,
\* when the payload, the signature or the key is missing or empty; it
\* resolves false when decoding or the signature check raises; and it
\* resolves true only when the signature check passes on the fields it read.
C7_VerifyNeverThrows ==
    [][ /\ (outcome'.op = "verify" /\ outcome' # outcome)
           => /\ outcome'.kind = "resolved"
              /\ outcome'.value \in {"true", "false"}
        /\ VerifyCall
           => /\ (Falsy(intent.transaction) \/ Falsy(intent.signature)
                     \/ Falsy(intent.pubkey))
                 => /\ outcome' = Resolved("verify", "false")
                    /\ verifying' = "none"
                    /\ ~Verify(intent).worked
              /\ (intent.signature = "junk" /\ ~Falsy(intent.transaction)
                     /\ ~Falsy(intent.pubkey))
                 => /\ outcome' = Resolved("verify", "false")
                    /\ verifying' = "none"
              /\ verifying' = "true"
                 => EdVerify(intent.signature, intent.transaction,
                             intent.pubkey)
              /\ verifying' # "none" => outcome' = outcome
        /\ VerifyResume => outcome' = Resolved("verify", verifying)
        /\ (verifying' = "true" /\ verifying # "true") => VerifyCall
      ]_vars

\* C7 witness: verify() resolved false on an Intent whose fields are all
\* present and whose signature makes the decoding or the check raise.
C7_Witness ==
    /\ outcome = Resolved("verify", "false")
    /\ intent.signature = "junk"
    /\ ~Falsy(intent.transaction)
    /\ ~Falsy(intent.pubkey)

\* C35: whatever sendFn has been handed passes the signature check: the
\* Intent given to sendFn is the one verify checked, also when its payload,
\* signature or key is assigned while confirm awaits verify.
C35_SentIsWhatVerifyChecked ==
    sendCount > 0 => Verify(lastSent).value

(***************************************************************************)
(* The request builders and the route lookup, one application at a time    *)
(* (SpecFn): Init draws the function and its arguments, the action applies *)
(* the function and records what it returns.                               *)
(***************************************************************************)
\* An object with no own property.
EmptyObject == << >>

\* Object spread `{...a, ...b}`: b's properties replace a's.
Spread(a, b) ==
    [k \in DOMAIN a \cup DOMAIN b |-> IF k \in DOMAIN b THEN b[k] ELSE a[k]]

\* getRouteInfo's arguments: /meta bodies with no routes mapping or with any
\* entries under keys with and without the leading slash, and path arrays
\* of zero to two segments, one of them holding a slash itself.
RouteKeys == {"/vault/deposit", "vault/deposit", "/vault", "/"}
Metas ==
    { MetaBody(FALSE, EmptyObject) }
    \cup { MetaBody(TRUE, [k \in K |-> [attested |-> k \in A]]) :
              K \in SUBSET RouteKeys, A \in SUBSET RouteKeys }
PathArrays ==
    { << >>, << "" >>, << "vault" >>, << "vault", "deposit" >>,
      << "deposit", "vault" >>, << "vault/deposit" >> }

\* executePlainRoute's arguments: ctx.wallet, and the payload: null or
\* undefined (isNull), or an object with or without a context and an amount.
Wallets == {"null", "W1"}
ContextValues == {"absent", "null", "empty", "callerContext"}
Payloads ==
    { [isNull |-> TRUE, context |-> "absent", amount |-> "absent"] }
    \cup [isNull : {FALSE}, context : ContextValues, amount : {"absent", "5"}]

\* The context block executePlainRoute builds: { wallet: ctx.wallet }.
WalletContext(wallet) == << "wallet", wallet >>

\* Mutant of PlainRequestBody: the wallet context replaces the caller's.
PlainRequestBodyOverwrite(wallet, payload) ==
    [context |-> IF ~Falsy(wallet) THEN WalletContext(wallet) ELSE payload.context,
     amount |-> payload.amount]

\* executePlainRoute: `body = payload || {}`, then
\* `if (ctx.wallet && !body.context) body.context = { wallet: ctx.wallet }`.
PlainRequestBody(wallet, payload) ==
    [context |-> IF ~Falsy(wallet) /\ Falsy(payload.context)
                 THEN WalletContext(wallet)
                 ELSE payload.context,
     amount |-> payload.amount]

\* The requests the engine sends, the API keys and the extra headers a
\* caller can configure, and the ids crypto.randomUUID can hand out.
Ops == {"session", "meta", "plain", "attested"}
ApiKeys == {"null", "key1"}
CallerHeaders ==
    { EmptyObject,
      [k \in {"x-app-version"} |-> "1.0.0"],
      [k \in {"content-type"} |-> "text/plain"],
      [k \in {"x-request-id"} |-> "mine"],
      [k \in {"x-api-key", "x-app-version"} |-> "theirs"] }
RequestIds == {"uuid1", "uuid2"}

\* `apiKey ? { 'x-api-key': apiKey } : {}`
ApiKeyHeader(apiKey) ==
    IF Falsy(apiKey) THEN EmptyObject ELSE [k \in {"x-api-key"} |-> apiKey]

\* Mutant of BuildHeaders: the caller's headers are spread first, the
\* engine's after them.
BuildHeadersEngineLast(apiKey, headers, requestId) ==
    Spread(Spread(Spread(headers,
                         [k \in {"content-type"} |-> "application/json"]),
                  ApiKeyHeader(apiKey)),
           IF Falsy(requestId) THEN EmptyObject
           ELSE [k \in {"x-request-id"} |-> requestId])

\* buildHeaders(ctx, requestId)
BuildHeaders(apiKey, headers, requestId) ==
    Spread(Spread(Spread([k \in {"content-type"} |-> "application/json"],
                         ApiKeyHeader(apiKey)),
                  IF Falsy(requestId) THEN EmptyObject
                  ELSE [k \in {"x-request-id"} |-> requestId]),
           headers)

\* The headers of each request: getSession and getMeta pass their own
\* object, the two executors call buildHeaders with a generated id.
RequestHeaders(op, apiKey, headers, requestId) ==
    IF op \in {"session", "meta"}
    THEN ApiKeyHeader(apiKey)
    ELSE BuildHeaders(apiKey, headers, requestId)

\* new Sona(opts) after setDebug(enabled): the options the model varies.
\* wallet is missing, a string, the empty string or a number; debug is
\* missing, a boolean or a string.
WalletOptions == {"absent", "W1", "empty", "number"}
DebugOptions == {"absent", "true", "false", "string"}
ConstructorOptions == [wallet : WalletOptions, debug : DebugOptions]

\* logger.js setDebug(enabled): the module's debugEnabled afterwards.
SetDebug(enabled) == enabled

\* validateConfig(opts): the error it throws, << >> when it returns.
ValidateConfig(opts) ==
    IF opts.wallet = "number" THEN << "wallet must be a string" >>
    ELSE IF opts.debug = "string" THEN << "debug must be a boolean" >>
    ELSE << >>

\* The constructor: validateConfig, the fields, setDebug(!!opts.debug),
\* and the session prefetch; `debugEnabled` is the logger's switch before.
Constructor(debugEnabled, opts) ==
    IF ValidateConfig(opts) # << >>
    THEN [threw |-> ValidateConfig(opts), debugEnabled |-> debugEnabled,
          wallet |-> "none", prefetchStarted |-> FALSE]
    ELSE [threw |-> << >>,
          debugEnabled |-> SetDebug(opts.debug = "true"),
          wallet |-> IF opts.wallet \in {"absent", "empty"} THEN "null"
                     ELSE opts.wallet,
          prefetchStarted |-> TRUE]

\* createEnvelope(ctx, payload), called once per attested attempt: the
\* attempts made one after another for the same payload (an attempt and its
\* retry, or later calls), the ids crypto.randomUUID can return and the
\* seconds Date.now() can show.
MaxEnvelopes == 2
UUIDs == 1..(MaxEnvelopes + 1)
Seconds == 0..1
Origins == {"https://app.sona.build", "https://my-app.example.com"}

\* Mutant of RandomUUID: the first id is kept and handed out again.
RandomUUIDCached(drawn) == IF drawn = {} THEN UUIDs ELSE drawn

\* crypto.randomUUID(): any id the generator has not returned before.
RandomUUID(drawn) == UUIDs \ drawn

\* createEnvelope: { t, rid, origin: ctx.origin, payload }.
CreateEnvelope(origin, payload, now, rid) ==
    [t |-> now, rid |-> rid, origin |-> origin, payload |-> payload]

\* The values a timing header can carry: not sent, empty, zero, a positive
\* and a negative number, and text that is no number.
HeaderValues == {"absent", "", "0", "30", "-1", "abc"}

\* The three timing headers of one response.
TimingHeaders ==
    [context : {"absent", "10"}, enclave : {"absent", "abc"},
     total : HeaderValues]

\* A JavaScript number: NaN, or a finite value n.
NaN == [nan |-> TRUE, n |-> 0]
Num(n) == [nan |-> FALSE, n |-> n]

\* parseFloat on the header texts above.
ParseFloat(text) ==
    CASE text = "0" -> Num(0)
      [] text = "10" -> Num(10)
      [] text = "30" -> Num(30)
      [] text = "-1" -> Num(0 - 1)
      [] OTHER -> NaN

\* res.headers.get(name) || '0': null and the empty string give '0'.
HeaderOrZero(value) == IF value \in {"absent", ""} THEN "0" ELSE value

\* extractServerMetrics(res)
ExtractServerMetrics(headers) ==
    [server_context_ms |-> ParseFloat(HeaderOrZero(headers.context)),
     server_enclave_ms |-> ParseFloat(HeaderOrZero(headers.enclave)),
     server_total_ms |-> ParseFloat(HeaderOrZero(headers.total))]

\* x > 0 on a JavaScript number: false for NaN.
Positive(x) == ~x.nan /\ x.n > 0

\* The statement executeAttestedRoute leaves by, once the POST has answered.
AttestedPath(r) ==
    CASE r.status = "404" -> "handle404"
      [] r.status # "200" -> "throwApiError"
      [] r.error = StaleText -> "throwStale"
      [] r.hasMsg /\ r.hasSig -> "returnIntent"
      [] OTHER -> "returnData"

\* What executeAttestedRoute leaves in timings after the POST answered in
\* apiMs: serverMetrics and api_overhead_ms are set only past res.json(),
\* the overhead only when server_total_ms > 0.  An unset field is << >>.
AttestedTimings(r, headers, apiMs) ==
    LET serverMetrics == ExtractServerMetrics(headers) IN
      [api |-> apiMs,
       serverMetrics |->
           IF r.status = "200" THEN << serverMetrics >> ELSE << >>,
       api_overhead_ms |->
           IF r.status = "200" /\ Positive(serverMetrics.server_total_ms)
           THEN << apiMs - serverMetrics.server_total_ms.n >>
           ELSE << >>]

\* _callRouteInternal once the executor has returned: `timings.total =
\* performance.now() - perfStart`, the time since the call began: every
\* wait of the call counts, the route lookup (metaMs), getSession
\* (sessionMs), the POST up to its headers (apiMs) and the body read
\* (parseMs).  The synchronous statements between them, the encryption
\* included, are taken to cost no time.
TotalMs(metaMs, sessionMs, apiMs, parseMs) ==
    metaMs + sessionMs + apiMs + parseMs

\* logPerformanceMetrics(route, timings, timings.serverMetrics, perfStart)
\* with timings.total = total: the lines it writes.  Nothing unless debug
\* is enabled; the four debug() lines, and last the console.warn line for
\* a request of more than 1000 ms.
LogPerformanceMetrics(timings, total, debugOn) ==
    IF ~debugOn THEN {}
    ELSE {"completed", "client breakdown"}
         \cup ( IF /\ timings.serverMetrics # << >>
                   /\ Positive(timings.serverMetrics[1].server_total_ms)
                THEN {"server breakdown"}
                     \cup ( IF /\ timings.api_overhead_ms # << >>
                               /\ timings.api_overhead_ms[1] # 0
                            THEN {"overhead"} ELSE {} )
                ELSE {} )
         \cup ( IF total > 1000 THEN {"slow request"} ELSE {} )

\* The statements executeAttestedRoute runs once the POST has answered, in
\* order, the last one being the statement it leaves by.  On a 2xx answer
\* the assignment to timings.api_overhead_ms is run exactly when
\* `serverMetrics.server_total_ms > 0`.
AttestedTrace(r, headers) ==
    CASE r.status = "404" -> << "if status 404", AttestedPath(r) >>
      [] r.status # "200" ->
           << "if status 404", "if not ok", "res.text", AttestedPath(r) >>
      [] OTHER ->
           << "if status 404", "if not ok", "res.json", "extractServerMetrics",
              "if server_total_ms > 0" >>
           \o ( IF Positive(ExtractServerMetrics(headers).server_total_ms)
                THEN << "api_overhead_ms" >> ELSE << >> )
           \o << "serverMetrics", "processAttestedResponse", AttestedPath(r) >>

\* Mutant of AttestedTail: a response without a positive total time is
\* answered with null.
AttestedTailGated(session, r, headers, apiMs) ==
    LET timings == AttestedTimings(r, headers, apiMs)
        gated == r.status = "200" /\ timings.api_overhead_ms = << >>
        result == IF gated THEN OutNull
                   ELSE ExecuteAttestedFinish([session |-> session], r) IN
      [trace |-> IF gated THEN << "if status 404", "handle404" >>
                 ELSE AttestedTrace(r, headers),
       path |-> IF gated THEN "handle404" ELSE AttestedPath(r),
       outcome |-> result,
       timings |-> timings]

\* executeAttestedRoute from the POST's answer on: the statements it runs,
\* the one it leaves by, how it settles and the timings it has written by
\* then.
AttestedTail(session, r, headers, apiMs) ==
    LET timings == AttestedTimings(r, headers, apiMs)
        trace == AttestedTrace(r, headers)
        result == ExecuteAttestedFinish([session |-> session], r) IN
      [trace |-> trace,
       path |-> trace[Len(trace)],
       outcome |-> result,
       timings |-> timings]

\* One handling of an attested answer: the POST's headers are in (phase
\* "body": res.json() or res.text() is awaited), the executor has returned
\* (phase "returned": _callRouteInternal has not resumed yet), or the call
\* is over (phase "done").  a is the run under the headers of the
\* arguments, b the run under the headers `other`; debugEnabled is the
\* logger's switch and parseMs the time the body read took.
TailRun(phase, r, other, debugEnabled, a, b, logged) ==
    [phase |-> phase, r |-> r, other |-> other, debugEnabled |-> debugEnabled,
     parseMs |-> 0, a |-> a, b |-> b, logged |-> logged]

\* Nothing has left the executor yet.
NoTail == [trace |-> << >>, path |-> "", outcome |-> OutNull, timings |-> << >>]
NotLogged == [a |-> {}, b |-> {}]

\* The answers an attested POST can carry headers on: every HTTP response,
\* for a ciphertext sealed for the current key or for an older one.
AnsweredResponses ==
    { r \in AttestedResponses(serverEpoch) \cup AttestedResponses(serverEpoch + 1) :
        r.status \notin {"timeout", "network"} }

\* The client proxy as objects: heap holds the path arrays, a node is the
\* address of the array its closure captured, node 1 is makeClient's
\* build([]).  A caller makes up to MaxAccesses property reads and
\* invocations on the nodes it holds.
MaxAccesses == 3

\* Mutant of GetTrap: the segment is pushed onto the captured array, which
\* the new node then shares with its parent.
GetTrapPush(heap, addr, prop) ==
    IF prop = "then"
    THEN [heap |-> heap, yielded |-> 0]
    ELSE [heap |-> [heap EXCEPT ![addr] = Append(@, prop)], yielded |-> addr]

\* The get trap of the node that captured heap[addr]: `then` yields
\* undefined (0); any other property yields build of a new array, the
\* copy [...path, String(prop)].
GetTrap(heap, addr, prop) ==
    LET got == ProxyGet(ProxyOf(heap[addr]), prop) IN
      IF ~got.defined
      THEN [heap |-> heap, yielded |-> 0]
      ELSE [heap |-> Append(heap, got.path), yielded |-> Len(heap) + 1]

\* The client after makeClient(executeRoute): one node, nothing read or
\* invoked, the executor never called.
NewClient ==
    [heap |-> << MakeClient.path >>, nodes |-> << 1 >>, log |-> << >>,
     executed |-> << >>]

\* node[prop] on node k: the log keeps what was read and the node it yielded.
ReadProperty(client, k, prop) ==
    LET got == GetTrap(client.heap, client.nodes[k], prop)
        nodes == IF got.yielded = 0 THEN client.nodes
                 ELSE Append(client.nodes, got.yielded) IN
      [client EXCEPT
         !.heap = got.heap,
         !.nodes = nodes,
         !.log = Append(@, [op |-> "get", on |-> k, prop |-> prop,
                            yielded |-> IF got.yielded = 0 THEN 0
                                        ELSE Len(nodes)])]

\* node(payload) on node k: the executor receives the node's path unless
\* the path is empty.
CallNode(client, k, argList, executor) ==
    LET out == InvokeProxy(ProxyOf(client.heap[client.nodes[k]]), argList,
                           executor) IN
      [client EXCEPT
         !.executed = @ \o out.executed,
         !.log = Append(@, [op |-> "call", on |-> k, prop |-> "",
                            yielded |-> 0])]

\* Two clients of one process, each with the baseUrl and apiKey of its
\* constructor options; "none" is the null apiKey.
BaseUrls == {"https://api.sona.build", "https://staging.example.com"}
ClientConfigs == [baseUrl : BaseUrls, apiKey : {"none", "keyB"}]

\* A cache slot: `let cache = null`, or the parsed body of the 2xx answer
\* that baseUrl gave to a GET sent with apiKey.
EmptySlot == [present |-> FALSE, baseUrl |-> "", apiKey |-> ""]
ServedBody(baseUrl, apiKey) ==
    [present |-> TRUE, baseUrl |-> baseUrl, apiKey |-> apiKey]

\* Mutant of CachedFor: the slot answers only the baseUrl and apiKey it
\* was filled for.
CachedForKeyed(cache, baseUrl, apiKey) ==
    SessionCacheHit(cache) /\ cache.baseUrl = baseUrl /\ cache.apiKey = apiKey

\* getSession(baseUrl, apiKey) and getMeta(baseUrl, apiKey) start with
\* `if (cache) return cache;`.
CachedFor(cache, baseUrl, apiKey) == SessionCacheHit(cache)

\* A client's getSession or getMeta call: pc is "idle" (no call made),
\* "wait" (its GET is sent, `await fetchWithTimeout`), "body" (`await
\* res.json()`) or "done"; before is the slot as the call's test found it,
\* value what the call returned and after the slot as it left it.
NoGet ==
    [fn |-> "", pc |-> "idle", before |-> EmptySlot, fetched |-> FALSE,
     threw |-> << >>, value |-> EmptySlot, after |-> EmptySlot]

\* The call begins: `if (cache) return cache`, otherwise the GET is sent.
CachedGet(fn, cache, baseUrl, apiKey) ==
    IF CachedFor(cache, baseUrl, apiKey)
    THEN [NoGet EXCEPT !.fn = fn, !.pc = "done", !.before = cache,
                       !.value = cache, !.after = cache]
    ELSE [NoGet EXCEPT !.fn = fn, !.pc = "wait", !.before = cache,
                       !.fetched = TRUE]

\* The GET settles with r: `if (!res.ok) throw`, or the fetch's own error;
\* on a 2xx status the body is read next.
GetAnswered(get, r, httpErr) ==
    IF r.status = "200"
    THEN [get EXCEPT !.pc = "body"]
    ELSE [get EXCEPT !.pc = "done", !.threw = FetchError(r, httpErr)]

\* `cache = await res.json(); return cache`: the body served to this
\* client's GET replaces the slot, whatever the slot holds by now.
GetParsed(get, baseUrl, apiKey) ==
    [get EXCEPT !.pc = "done", !.value = ServedBody(baseUrl, apiKey),
                !.after = ServedBody(baseUrl, apiKey)]

\* The two module caches before any call, and each client's call.
NewCaches ==
    [session |-> EmptySlot, meta |-> EmptySlot,
     gets |-> [k \in 1..2 |-> NoGet]]

\* buildHeaders called on its own: ctx.headers as above, or replacing all
\* three engine headers, or spelling a name in another case (a different
\* key of the object); requestId may be left out.
ExtraHeaders ==
    CallerHeaders
    \cup { [k \in {"content-type", "x-api-key", "x-request-id"} |-> "theirs"],
           [k \in {"Content-Type"} |-> "text/plain"] }

\* The time a wait of the call can take, in ms.
WaitMs == {0, 600}

FnInputs ==
    [fn : {"getRouteInfo"}, meta : Metas, pathArray : PathArrays]
    \cup [fn : {"buildHeaders"}, apiKey : ApiKeys, headers : ExtraHeaders,
          requestId : RequestIds \cup {"absent"}]
    \cup [fn : {"caches"}, clients : [1..2 -> ClientConfigs]]
    \cup [fn : {"proxyAccess"}, argList : { << >>, << "payloadA" >> },
          executor : ExecutorResults]
    \cup [fn : {"attestedTail"}, headers : TimingHeaders,
          metaMs : WaitMs, sessionMs : WaitMs, apiMs : {30, 50, 1500},
          debugOn : BOOLEAN]
    \cup [fn : {"createEnvelope"}, origin : Origins,
          payload : {"payloadA", "payloadB"}]
    \cup [fn : {"construct"}, setDebug : BOOLEAN, opts : ConstructorOptions]
    \cup [fn : {"encrypt"}, text : Plaintexts, keyLen : KeyLengths]
    \cup [fn : {"makeClient"}, chain : Chains, argList : ArgLists,
          executor : ExecutorResults]
    \cup [fn : {"executePlainRoute"}, wallet : Wallets, payload : Payloads]
    \cup [fn : {"request"}, op : Ops, apiKey : ApiKeys,
          headers : CallerHeaders, requestId : RequestIds]

Returned(v) == [set |-> TRUE, value |-> v]

ApplyGetRouteInfo ==
    /\ args.fn = "getRouteInfo"
    /\ ~ret.set
    /\ ret' = Returned(GetRouteInfo(args.meta, args.pathArray))
    /\ UNCHANGED << dispatchVars, intentVars, args >>

ApplyExecutePlainRoute ==
    /\ args.fn = "executePlainRoute"
    /\ ~ret.set
    /\ ret' = Returned(PlainRequestBody(args.wallet, args.payload))
    /\ UNCHANGED << dispatchVars, intentVars, args >>

ApplyRequest ==
    /\ args.fn = "request"
    /\ ~ret.set
    /\ ret' = Returned(RequestHeaders(args.op, args.apiKey, args.headers,
                                      args.requestId))
    /\ UNCHANGED << dispatchVars, intentVars, args >>

ApplyBuildHeaders ==
    /\ args.fn = "buildHeaders"
    /\ ~ret.set
    /\ ret' = Returned(BuildHeaders(args.apiKey, args.headers, args.requestId))
    /\ UNCHANGED << dispatchVars, intentVars, args >>

ApplyMakeClient ==
    /\ args.fn = "makeClient"
    /\ ~ret.set
    /\ ret' = Returned(ClientCall(MakeClient, args.chain, args.argList,
                                  args.executor))
    /\ UNCHANGED << dispatchVars, intentVars, args >>

\* One more encryptForEnclave call on the same text and key; ret collects
\* the results of the calls in order.
ApplyEncrypt ==
    /\ args.fn = "encrypt"
    /\ LET done == IF ret.set THEN ret.value ELSE << >> IN
         /\ Len(done) < MaxEncrypts
         /\ \E ephPriv \in RandomBytes({ done[i].eph : i \in DOMAIN done }) :
              ret' = Returned(Append(done,
                        EncryptForEnclave(args.text, KeyBytes(args.keyLen),
                                          ephPriv)))
    /\ UNCHANGED << dispatchVars, intentVars, args >>

\* setDebug(args.setDebug), then new Sona(args.opts).
ApplyConstruct ==
    /\ args.fn = "construct"
    /\ ~ret.set
    /\ ret' = Returned(Constructor(SetDebug(args.setDebug), args.opts))
    /\ UNCHANGED << dispatchVars, intentVars, args >>

\* One more attempt builds its envelope for the same ctx and payload; the
\* clock does not run backwards; ret collects the envelopes in order.
ApplyCreateEnvelope ==
    /\ args.fn = "createEnvelope"
    /\ LET done == IF ret.set THEN ret.value ELSE << >>
           since == IF done = << >> THEN 0 ELSE done[Len(done)].t IN
         /\ Len(done) < MaxEnvelopes
         /\ \E rid \in RandomUUID({ done[i].rid : i \in DOMAIN done }) :
              \E now \in { t \in Seconds : t >= since } :
                ret' = Returned(Append(done,
                          CreateEnvelope(args.origin, args.payload, now, rid)))
    /\ UNCHANGED << dispatchVars, intentVars, args >>

\* One attested response is handled twice, under the timing headers of args
\* and under any other ones, on the same schedule; ret holds both runs.
\* The POST's fetch settles with the status line and headers of r: a 404
\* leaves the executor at once, any other status goes on to read the body.
ApplyAttestedHeaders ==
    /\ args.fn = "attestedTail"
    /\ ~ret.set
    /\ \E r \in AnsweredResponses : \E other \in TimingHeaders :
         LET session == Session(serverEpoch, 0) IN
           ret' = Returned(
               IF r.status = "404"
               THEN TailRun("returned", r, other, args.debugOn,
                            AttestedTail(session, r, args.headers, args.apiMs),
                            AttestedTail(session, r, other, args.apiMs),
                            NotLogged)
               ELSE TailRun("body", r, other, args.debugOn, NoTail, NoTail,
                            NotLogged))
    /\ UNCHANGED << dispatchVars, intentVars, args >>

\* The body read ends after parseMs (res.json(), or res.text() on an error
\* status): the executor reads the timing headers and returns or throws.
\* A throw ends _callRouteInternal without a log line.
ApplyAttestedTail ==
    /\ args.fn = "attestedTail"
    /\ ret.set
    /\ ret.value.phase = "body"
    /\ \E parseMs \in WaitMs :
         LET session == Session(serverEpoch, 0)
             a == AttestedTail(session, ret.value.r, args.headers, args.apiMs)
             b == AttestedTail(session, ret.value.r, ret.value.other, args.apiMs) IN
           ret' = Returned([ret.value EXCEPT
                     !.phase = IF a.outcome.kind = "throw" THEN "done"
                               ELSE "returned",
                     !.parseMs = parseMs,
                     !.a = a, !.b = b])
    /\ UNCHANGED << dispatchVars, intentVars, args >>

\* `await executeAttestedRoute(...)` resumes in _callRouteInternal: it sets
\* timings.total and calls logPerformanceMetrics, which reads the logger's
\* switch now.
ApplyLogPerformanceMetrics ==
    /\ args.fn = "attestedTail"
    /\ ret.set
    /\ ret.value.phase = "returned"
    /\ LET total == TotalMs(args.metaMs, args.sessionMs, args.apiMs,
                            ret.value.parseMs) IN
         ret' = Returned([ret.value EXCEPT
                   !.phase = "done",
                   !.logged =
                       [a |-> LogPerformanceMetrics(ret.value.a.timings, total,
                                                    ret.value.debugEnabled),
                        b |-> LogPerformanceMetrics(ret.value.b.timings, total,
                                                    ret.value.debugEnabled)]])
    /\ UNCHANGED << dispatchVars, intentVars, args >>

\* The application calls setDebug(enabled), or constructs a client (whose
\* constructor calls setDebug(!!opts.debug)), while the call is under way.
ApplySetDebug ==
    /\ args.fn = "attestedTail"
    /\ ret.set
    /\ ret.value.phase # "done"
    /\ \E enabled \in BOOLEAN :
         ret' = Returned([ret.value EXCEPT !.debugEnabled = SetDebug(enabled)])
    /\ UNCHANGED << dispatchVars, intentVars, args >>

\* The caller reads a property of a node it holds, or invokes one.
ApplyProxyAccess ==
    /\ args.fn = "proxyAccess"
    /\ LET client == IF ret.set THEN ret.value ELSE NewClient IN
         /\ Len(client.log) < MaxAccesses
         /\ \E k \in DOMAIN client.nodes :
              \/ \E prop \in PropNames :
                    ret' = Returned(ReadProperty(client, k, prop))
              \/ ret' = Returned(CallNode(client, k, args.argList,
                                          args.executor))
    /\ UNCHANGED << dispatchVars, intentVars, args >>

\* ret keeps both slots and, for each of the two clients, its last
\* getSession or getMeta call.
Caches == IF ret.set THEN ret.value ELSE NewCaches

\* Client k calls getSession or getMeta; its earlier call, if any, is over.
ApplyCaches(k, fn) ==
    /\ args.fn = "caches"
    /\ Caches.gets[k].pc \in {"idle", "done"}
    /\ LET cache == IF fn = "getSession" THEN Caches.session ELSE Caches.meta IN
         ret' = Returned([Caches EXCEPT
                   !.gets[k] = CachedGet(fn, cache, args.clients[k].baseUrl,
                                         args.clients[k].apiKey)])
    /\ UNCHANGED << dispatchVars, intentVars, args >>

\* The GET of client k's call settles.
ApplyCachesAnswered(k, r) ==
    /\ args.fn = "caches"
    /\ Caches.gets[k].pc = "wait"
    /\ ret' = Returned([Caches EXCEPT
                 !.gets[k] = GetAnswered(@, r,
                     IF @.fn = "getSession" THEN ErrSession(r.status)
                     ELSE ErrMeta(r.status))])
    /\ UNCHANGED << dispatchVars, intentVars, args >>

\* The body of client k's answer has been read: the slot is written.
ApplyCachesParsed(k) ==
    /\ args.fn = "caches"
    /\ Caches.gets[k].pc = "body"
    /\ LET got == GetParsed(Caches.gets[k], args.clients[k].baseUrl,
                            args.clients[k].apiKey) IN
         ret' = Returned([Caches EXCEPT
                   !.gets[k] = got,
                   !.session = IF got.fn = "getSession" THEN got.after ELSE @,
                   !.meta = IF got.fn = "getMeta" THEN got.after ELSE @])
    /\ UNCHANGED << dispatchVars, intentVars, args >>

\* clearSessionCache() or clearMetaCache(): `cache = null`.
ApplyCachesClear(fn) ==
    /\ args.fn = "caches"
    /\ ret' = Returned([Caches EXCEPT
                 !.session = IF fn = "getSession" THEN EmptySlot ELSE @,
                 !.meta = IF fn = "getMeta" THEN EmptySlot ELSE @])
    /\ UNCHANGED << dispatchVars, intentVars, args >>

InitFnInputs ==
    /\ InitDispatch
    /\ InitIntent
    /\ args \in FnInputs
    /\ ret = NoRet

NextFn ==
    \/ ApplyGetRouteInfo
    \/ ApplyExecutePlainRoute
    \/ ApplyRequest
    \/ ApplyMakeClient
    \/ ApplyEncrypt
    \/ ApplyConstruct
    \/ ApplyCreateEnvelope
    \/ ApplyAttestedHeaders
    \/ ApplyAttestedTail
    \/ ApplyLogPerformanceMetrics
    \/ ApplySetDebug
    \/ ApplyProxyAccess
    \/ \E k \in 1..2, fn \in {"getSession", "getMeta"} : ApplyCaches(k, fn)
    \/ \E k \in 1..2, r \in FetchResponses : ApplyCachesAnswered(k, r)
    \/ \E k \in 1..2 : ApplyCachesParsed(k)
    \/ \E fn \in {"getSession", "getMeta"} : ApplyCachesClear(fn)
    \/ ApplyBuildHeaders

SpecFn == InitFnInputs /\ [][NextFn]_vars

(***************************************************************************)
(* Claims about the request builders and the route lookup (SpecFn).        *)
(***************************************************************************)
\* The key each path array of PathArrays stands for, written out.
ExpectedKey(pathArray) ==
    CASE pathArray = << >> -> "/"
      [] pathArray = << "" >> -> "/"
      [] pathArray = << "vault" >> -> "/vault"
      [] pathArray = << "vault", "deposit" >> -> "/vault/deposit"
      [] pathArray = << "deposit", "vault" >> -> "/deposit/vault"
      [] pathArray = << "vault/deposit" >> -> "/vault/deposit"

\* C18: getRouteInfo(meta, segments) returns the entry stored under "/"
\* followed by the segments joined with "/", and the absent result when no
\* entry has that key or the body has no routes mapping.
C18_RouteLookupByKey ==
    (args.fn = "getRouteInfo" /\ ret.set)
    => LET key == ExpectedKey(args.pathArray) IN
       IF args.meta.hasRoutes /\ key \in DOMAIN args.meta.routes
       THEN /\ ret.value.found
            /\ ret.value.attested = args.meta.routes[key].attested
       ELSE ret.value = Absent

\* C18 witness: the entry of ["vault", "deposit"] was returned from a
\* registry that also has an entry under the key without the slash, whose
\* flag differs.
C18_Witness ==
    /\ args.fn = "getRouteInfo"
    /\ ret.set
    /\ args.pathArray = << "vault", "deposit" >>
    /\ args.meta.hasRoutes
    /\ {"/vault/deposit", "vault/deposit"} \subseteq DOMAIN args.meta.routes
    /\ args.meta.routes["vault/deposit"].attested
         # args.meta.routes["/vault/deposit"].attested
    /\ ret.value.found
    /\ ret.value.attested = args.meta.routes["/vault/deposit"].attested

\* C19 (as stated): the plain body is the payload, with context {wallet}
\* added exactly when a wallet is configured and the payload has no context
\* field; any context field the caller supplied is sent as it is.
C19_ContextAddedOnlyWhenMissing ==
    (args.fn = "executePlainRoute" /\ ret.set)
    => /\ ret.value.amount = args.payload.amount
       /\ ret.value.context =
            IF args.wallet # "null" /\ args.payload.context = "absent"
            THEN WalletContext(args.wallet)
            ELSE args.payload.context

\* C19 (amended): the plain body is the payload, with context {wallet} set
\* exactly when a wallet is configured and the payload's context is missing
\* or falsy (null, the empty string); a truthy context supplied by the
\* caller is sent unchanged, and so are the payload's other fields.
C19_ContextAddedWhenFalsy ==
    (args.fn = "executePlainRoute" /\ ret.set)
    => /\ ret.value.amount = args.payload.amount
       /\ ret.value.context =
            IF args.wallet = "W1"
                 /\ args.payload.context \in {"absent", "null", "empty"}
            THEN << "wallet", "W1" >>
            ELSE args.payload.context

\* C19 witness: a wallet is configured and the payload came with
\* context: null; the body sent carries the wallet context.
C19_Witness ==
    /\ args.fn = "executePlainRoute"
    /\ ret.set
    /\ args.wallet = "W1"
    /\ args.payload.context = "null"
    /\ args.payload.amount = "5"
    /\ ret.value = [context |-> << "wallet", "W1" >>, amount |-> "5"]

\* C20: every request carries content-type: application/json, x-api-key
\* exactly when an API key is configured, the x-request-id generated for
\* it, and every extra header the caller configured.
C20_EveryRequestCarriesHeaders ==
    (args.fn = "request" /\ ret.set)
    => LET h == ret.value IN
       /\ "content-type" \in DOMAIN h
       /\ h["content-type"] = "application/json"
       /\ ("x-api-key" \in DOMAIN h) <=> (args.apiKey = "key1")
       /\ "x-request-id" \in DOMAIN h
       /\ h["x-request-id"] = args.requestId
       /\ \A k \in DOMAIN args.headers :
             k \in DOMAIN h /\ h[k] = args.headers[k]

\* C21 (as stated): for any non-empty chain of property names the call
\* reaches the executor exactly once with the chain as path and the first
\* argument as payload and settles as the executor does; the root call
\* rejects with 'Cannot call client directly' and never calls the executor.
C21_ChainCallsExecutorOnce ==
    (args.fn = "makeClient" /\ ret.set)
    => IF args.chain = << >>
       THEN ret.value = ClientOutcome("rejected", ErrRootCall, << >>)
       ELSE /\ ret.value.executed =
                 << [path |-> args.chain,
                     payload |-> IF args.argList = << >> THEN "undefined"
                                 ELSE args.argList[1]] >>
            /\ ret.value.kind = args.executor.kind
            /\ ret.value.value = args.executor.value

\* C21 (amended): the same, for chains in which no property is named
\* "then"; a chain that names "then" raises a TypeError and never calls
\* the executor.
C21_ChainWithoutThenCallsExecutorOnce ==
    (args.fn = "makeClient" /\ ret.set)
    => IF args.chain = << >>
       THEN ret.value = ClientOutcome("rejected", ErrRootCall, << >>)
       ELSE IF \E i \in DOMAIN args.chain : args.chain[i] = "then"
            THEN /\ ret.value.kind = "thrown"
                 /\ ret.value.executed = << >>
            ELSE /\ ret.value.executed =
                      << [path |-> args.chain,
                          payload |-> IF args.argList = << >> THEN "undefined"
                                      ELSE args.argList[1]] >>
                 /\ ret.value.kind = args.executor.kind
                 /\ ret.value.value = args.executor.value

\* C21 witness: client.vault.deposit("payloadA", "payloadB") reached the
\* executor once with ["vault", "deposit"] and "payloadA" and resolved to
\* its result.
C21_Witness ==
    /\ args.fn = "makeClient"
    /\ ret.set
    /\ args.chain = << "vault", "deposit" >>
    /\ args.argList = << "payloadA", "payloadB" >>
    /\ ret.value = ClientOutcome("resolved", "result1",
                     << [path |-> << "vault", "deposit" >>,
                         payload |-> "payloadA"] >>)

\* The number of bytes UTF-8 takes for each character of Chars.
Utf8Width(ch) ==
    CASE ch = "a" -> 1 [] ch = "eacute" -> 2 [] ch = "euro" -> 3
      [] ch = "emoji" -> 4

RECURSIVE Utf8Length(_)
Utf8Length(text) ==
    IF text = << >> THEN 0 ELSE Utf8Width(Head(text)) + Utf8Length(Tail(text))

\* C22 (as stated): under a 32-byte recipient key the output is 32 +
\* UTF-8 length + 16 bytes long, laid out as ephemeral public key, then
\* ciphertext, then the 16-byte tag.
C22_LengthAndLayoutTagLast ==
    (args.fn = "encrypt" /\ ret.set /\ args.keyLen = 32)
    => \A k \in DOMAIN ret.value :
         LET out == ret.value[k].bytes
             n == Utf8Length(args.text) IN
         /\ ret.value[k].kind = "value"
         /\ Len(out) = 32 + n + 16
         /\ \A i \in 1..32 : out[i].seg = "ephPub"
         /\ \A i \in 33..(32 + n) : out[i].seg = "ct"
         /\ \A i \in (33 + n)..(48 + n) : out[i].seg = "tag"

\* C22 (amended): under a 32-byte recipient key the output is 32 + UTF-8
\* length + 16 bytes long, laid out as ephemeral public key, then the
\* 16-byte tag, then the ciphertext, one byte per plaintext byte in order.
C22_LengthAndLayoutTagFirst ==
    (args.fn = "encrypt" /\ ret.set /\ args.keyLen = 32)
    => \A k \in DOMAIN ret.value :
         LET out == ret.value[k].bytes
             n == Utf8Length(args.text) IN
         /\ ret.value[k].kind = "value"
         /\ Len(out) = 32 + n + 16
         /\ \A i \in 1..32 : out[i].seg = "ephPub" /\ out[i].i = i
         /\ \A i \in 33..48 : out[i].seg = "tag" /\ out[i].i = i - 32
         /\ \A i \in 49..(48 + n) : out[i].seg = "ct" /\ out[i].i = i - 48

\* C22 witness: the euro sign followed by an emoji, seven bytes of UTF-8,
\* was sealed into 55 bytes.
C22_Witness ==
    /\ args.fn = "encrypt"
    /\ ret.set
    /\ args.keyLen = 32
    /\ args.text = << "euro", "emoji" >>
    /\ Len(ret.value[1].bytes) = 55
    /\ ret.value[1].bytes[49].m = 226
    /\ ret.value[1].bytes[55].m = 128

\* C23: two encrypt calls never use the same ephemeral key pair: the
\* results of two calls on the same plaintext and recipient key differ in
\* the ephemeral public key, in the nonce and in the output as a whole.
C23_EphemeralKeyFresh ==
    (args.fn = "encrypt" /\ ret.set)
    => \A j, k \in DOMAIN ret.value :
         j < k =>
           /\ ret.value[j].eph # ret.value[k].eph
           /\ ret.value[j].nonce # ret.value[k].nonce
           /\ (args.keyLen = 32) =>
                /\ ret.value[j].bytes # ret.value[k].bytes
                /\ SubSeq(ret.value[j].bytes, 1, 32)
                     # SubSeq(ret.value[k].bytes, 1, 32)

\* C23 witness: the same non-empty text was sealed twice under the same
\* 32-byte key.
C23_Witness ==
    /\ args.fn = "encrypt"
    /\ ret.set
    /\ args.keyLen = 32
    /\ args.text = << "a", "euro" >>
    /\ Len(ret.value) = 2
    /\ ret.value[1].kind = "value"
    /\ ret.value[2].kind = "value"

\* C26: constructing a client whose options omit debug leaves the debug
\* switch as the last setDebug call set it.
C26_ConstructorKeepsDebugSwitch ==
    (args.fn = "construct" /\ ret.set /\ args.opts.debug = "absent"
       /\ ret.value.threw = << >>)
    => ret.value.debugEnabled = args.setDebug

\* C27: constructing a client without a wallet option throws 'wallet is
\* required' and starts no session prefetch.
C27_WalletRequired ==
    (args.fn = "construct" /\ ret.set /\ args.opts.wallet = "absent")
    => /\ ret.value.threw = << "wallet is required" >>
       /\ ~ret.value.prefetchStarted

\* C31: no two envelopes share a request id, whether they belong to an
\* attempt and its retry for the same payload or to different calls; each
\* carries the origin and the payload it was built for.
C31_EnvelopeIdsUnique ==
    (args.fn = "createEnvelope" /\ ret.set)
    => /\ \A j, k \in DOMAIN ret.value :
            j # k => ret.value[j].rid # ret.value[k].rid
       /\ \A k \in DOMAIN ret.value :
            /\ ret.value[k].origin = args.origin
            /\ ret.value[k].payload = args.payload

\* C31 witness: two envelopes for the same payload were built within the
\* same second.
C31_Witness ==
    /\ args.fn = "createEnvelope"
    /\ ret.set
    /\ Len(ret.value) = 2
    /\ ret.value[1].t = ret.value[2].t
    /\ ret.value[1].payload = ret.value[2].payload

WithoutOverhead(trace) == SelectSeq(trace, LAMBDA st : st # "api_overhead_ms")

RECURSIVE PathRead(_, _)
PathRead(log, i) ==
    IF i = 1 THEN << >>
    ELSE LET k == CHOOSE j \in DOMAIN log : log[j].yielded = i IN
           Append(PathRead(log, log[k].on), log[k].prop)

\* C33: a property read never calls the executor and never changes the path
\* of a node that exists: every node keeps the path read on the way to it,
\* whatever was read from its parent or its siblings since; `then` yields
\* undefined at every node and nothing else does; the executor has received
\* exactly the invocations of nodes with a non-empty path, each with that
\* node's own path.
C33_PropertyReadsArePure ==
    (args.fn = "proxyAccess" /\ ret.set)
    => LET client == ret.value
           invoked == SelectSeq(client.log,
               LAMBDA e : e.op = "call" /\ PathRead(client.log, e.on) # << >>) IN
         /\ \A i \in DOMAIN client.nodes :
              client.heap[client.nodes[i]] = PathRead(client.log, i)
         /\ \A k \in DOMAIN client.log :
              client.log[k].op = "get"
              => (client.log[k].prop = "then" <=> client.log[k].yielded = 0)
         /\ Len(client.executed) = Len(invoked)
         /\ \A n \in DOMAIN invoked :
              client.executed[n].path = PathRead(client.log, invoked[n].on)

\* C33 witness: two different properties were read from the same node, one
\* after the other, each yielding a node of its own, and the executor was
\* not called.
C33_Witness ==
    /\ args.fn = "proxyAccess"
    /\ ret.set
    /\ ret.value.executed = << >>
    /\ \E j, k \in DOMAIN ret.value.log :
         /\ j < k
         /\ ret.value.log[j].on = ret.value.log[k].on
         /\ ret.value.log[j].yielded # 0
         /\ ret.value.log[k].yielded # 0
         /\ ret.value.log[j].prop # ret.value.log[k].prop
    /\ Len(ret.value.heap) = 3

\* C34: a getSession or getMeta call that finds its cache populated returns
\* the cached value without a request and leaves the cache as it is,
\* whichever client makes it and whatever baseUrl and apiKey it passes; and
\* every call that returns a value returns what the cache holds as it
\* returns.
C34_CachesNotKeyed ==
    (args.fn = "caches" /\ ret.set)
    => \A k \in 1..2 :
         LET get == ret.value.gets[k] IN
           /\ (get.pc # "idle" /\ get.before.present)
                => /\ get.pc = "done"
                   /\ get.value = get.before
                   /\ ~get.fetched
                   /\ get.threw = << >>
                   /\ get.after = get.before
           /\ (get.pc = "done" /\ get.threw = << >>)
                => /\ get.value.present
                   /\ get.value = get.after

\* C34 witness: a client received a Session that was fetched from another
\* baseUrl with another apiKey than its own.
C34_Witness ==
    /\ args.fn = "caches"
    /\ ret.set
    /\ \E k \in 1..2 :
         LET get == ret.value.gets[k] IN
           /\ get.fn = "getSession"
           /\ get.pc = "done"
           /\ ~get.fetched
           /\ get.value.present
           /\ get.value.baseUrl # args.clients[k].baseUrl
           /\ get.value.apiKey # args.clients[k].apiKey
           /\ get.value = ServedBody(args.clients[3 - k].baseUrl,
                                     args.clients[3 - k].apiKey)

\* C38: in the object buildHeaders returns, every key of ctx.headers has
\* the caller's value, also when it is content-type, x-api-key or
\* x-request-id; each of those three the caller did not supply is as the
\* engine sets it; and there is no other key.
C38_CallerHeadersLast ==
    (args.fn = "buildHeaders" /\ ret.set)
    => LET h == ret.value
           own == DOMAIN args.headers IN
       /\ \A k \in own : k \in DOMAIN h /\ h[k] = args.headers[k]
       /\ "content-type" \notin own
            => ("content-type" \in DOMAIN h
                /\ h["content-type"] = "application/json")
       /\ "x-api-key" \notin own
            => IF args.apiKey = "key1"
               THEN "x-api-key" \in DOMAIN h /\ h["x-api-key"] = "key1"
               ELSE "x-api-key" \notin DOMAIN h
       /\ "x-request-id" \notin own
            => IF args.requestId \in RequestIds
               THEN "x-request-id" \in DOMAIN h
                    /\ h["x-request-id"] = args.requestId
               ELSE "x-request-id" \notin DOMAIN h
       /\ DOMAIN h \subseteq
            own \cup {"content-type", "x-api-key", "x-request-id"}

\* C38 witness: the caller's content-type replaced the engine's while the
\* engine's x-api-key and x-request-id were kept.
C38_Witness ==
    /\ args.fn = "buildHeaders"
    /\ ret.set
    /\ DOMAIN args.headers = {"content-type"}
    /\ ret.value["content-type"] = "text/plain"
    /\ "x-api-key" \in DOMAIN ret.value
    /\ ret.value["x-api-key"] = "key1"
    /\ "x-request-id" \in DOMAIN ret.value
    /\ ret.value["x-request-id"] = "uuid1"
====
